---- MODULE Spec2Model ----
(***************************************************************************)
(* Incremental update and vintage (revision) detection of the flat_series  *)
(* store:                                                                  *)
(*   scripts/ingest_flat_series_incremental.py  (update_record_incremental,*)
(*                                                main)                    *)
(*   scripts/ingest_flat_series_with_vintages.py (ingest_record_with_      *)
(*                                     vintages, compare_series, main)     *)
(*   scripts/smart_update_scheduler.py (update_dataset_prioritized)        *)
(* Spec follows one series step by step: each store or network call of a   *)
(* task is one step, so that the store is visible between the vintage      *)
(* write and the live write.  SpecCompare is compare_series on its own,    *)
(* SpecBatch a batch of main() over the records of a dataset with a pool   *)
(* of workers, SpecSmart the two phases of the smart scheduler.            *)
(***************************************************************************)
EXTENDS Integers, Sequences, FiniteSets, TLC

VARIABLES
    store,          \* the subtree flat_series/<px_code> of the document store
    clock,          \* datetime.now(), advanced on every reading
    pc,             \* position of the running task
    mode,           \* "incr" (update_record_incremental) or "full" (ingest_record_with_vintages)
    dry_run,        \* args.dry_run
    last_date,      \* update_record_incremental: last_date
    request,        \* the period range of the URL that was requested
    response,       \* what the provider answered
    new_values,     \* new_values of the running task
    existing,       \* existing_data as read by the running task
    comparison,     \* ingest_record_with_vintages: comparison
    has_changes,    \* ingest_record_with_vintages: has_changes
    writes,         \* the store writes the running task has issued, in order
    result,         \* (ok, message) and what process_record made of it
    counters,       \* the counters of main() for the batch of this task
    failed_records, \* main(): failed_records
    pre,            \* the store as it was when the running task started
    prev_task       \* whether the task that ran before was a successful incremental update

\* One call of compare_series on its own.
VARIABLES
    cmp_pc,         \* "idle", "input" (arguments chosen) or "done" (returned)
    cmp_old,        \* old_values
    cmp_new,        \* new_values
    cmp_result      \* the dictionary compare_series returns

\* One batch run of main() over the records of a dataset.
VARIABLES
    b_pc,           \* position of main(): "idle", "main", "submit", "pool", "log", "done", "crashed"
    b_args,         \* the script that runs ("incr" or "full") and its arguments
    b_store,        \* flat_series: px_code -> subtree
    b_pre,          \* flat_series as it was when main() started
    b_existing_px,  \* main(): existing_px
    b_to_process,   \* main(): to_process (filtered in the incremental script)
    b_skipped,      \* main(): skipped
    b_tasks,        \* the futures of the pool, in submission order
    b_counters,     \* the counters of main()
    b_failed,       \* main(): failed_records
    b_log           \* the failed_ingestion_<dataset>_<timestamp>.json artifact

\* One call of update_dataset_prioritized of the smart scheduler.
VARIABLES
    s_pc,             \* position: "idle", "start", "phase1", "pool1", "phase2", "pool2", "log", "done"
    s_args,           \* dataset, national_first
    s_catalog,        \* what load_catalog() returned
    s_national,       \* national
    s_regional,       \* regional
    s_tasks,          \* the futures of both phases, in submission order
    s_total_updated,  \* total_updated
    s_total_failed,   \* total_failed
    s_failed_records, \* failed_records
    s_log,            \* the failed_update_<dataset>_<timestamp>.json artifact
    s_return          \* the return value: "" (none yet), "true" or "false"

\* One call of fetch_incremental_series_data on its own.
VARIABLES
    ft_pc,          \* "idle", "input" (arguments and answer chosen) or "done" (returned)
    ft_api_url,     \* api_url
    ft_last,        \* last_date
    ft_resp,        \* what the provider answers
    ft_request,     \* incremental_url
    ft_result       \* new_values, or the exception

\* The worker tasks of one batch and the state they share.
VARIABLES
    k_script,       \* "none", "vintages" (ingest_flat_series_with_vintages) or "smart"
    k_lock,         \* print_lock: 0 when free, else the task that holds it
    k_tasks,        \* per worker task: where it is in process_record, and its outcome
    k_failed,       \* failed_records, as the sequence of the tasks that appended
    k_counters,     \* the outcome counters
    k_collected     \* the futures whose result the main thread has taken

\* The auto update scheduler, one invocation a day.
VARIABLES
    a_pc,           \* "idle", "start", "update" (in the loop of main) or "done"
    a_today,        \* <<month, day>> of datetime.now()
    a_runs,         \* invocations of main so far
    a_logs,         \* per dataset the latest failed_ingestion_{dataset}_*.json
    a_last,         \* per dataset its last update_dataset call by the scheduler
    a_selected,     \* datasets_to_update
    a_attempts,     \* per dataset the strategies update_dataset has run in this invocation
    a_results,      \* results of main
    a_file          \* the update_results file of this invocation

seriesVars == <<store, clock, pc, mode, dry_run, last_date, request, response,
                new_values, existing, comparison, has_changes, writes, result,
                counters, failed_records, pre, prev_task>>

cmpVars == <<cmp_pc, cmp_old, cmp_new, cmp_result>>

batchVars == <<b_pc, b_args, b_store, b_pre, b_existing_px, b_to_process, b_skipped,
               b_tasks, b_counters, b_failed, b_log>>

smartVars == <<s_pc, s_args, s_catalog, s_national, s_regional, s_tasks,
               s_total_updated, s_total_failed, s_failed_records, s_log, s_return>>

fetchVars == <<ft_pc, ft_api_url, ft_last, ft_resp, ft_request, ft_result>>

lockVars == <<k_script, k_lock, k_tasks, k_failed, k_counters, k_collected>>

autoVars == <<a_pc, a_today, a_runs, a_logs, a_last, a_selected, a_attempts, a_results,
              a_file>>

\* What the steps of an update task of the series leave alone.
otherVars == <<cmpVars, batchVars, smartVars, fetchVars, lockVars, autoVars>>

\* What a call of compare_series on its own, a step of a batch and a step of
\* the smart scheduler leave alone.
notCmpVars == <<seriesVars, batchVars, smartVars, fetchVars, lockVars, autoVars>>
notBatchVars == <<seriesVars, cmpVars, smartVars, fetchVars, lockVars, autoVars>>
notSmartVars == <<seriesVars, cmpVars, batchVars, fetchVars, lockVars, autoVars>>
notFetchVars == <<seriesVars, cmpVars, batchVars, smartVars, lockVars, autoVars>>
notLockVars == <<seriesVars, cmpVars, batchVars, smartVars, fetchVars, autoVars>>
notAutoVars == <<seriesVars, cmpVars, batchVars, smartVars, fetchVars, lockVars>>

vars == <<seriesVars, cmpVars, batchVars, smartVars, fetchVars, lockVars, autoVars>>

---------------------------------------------------------------------------
(* Bounds and inputs *)

\* Readings of the clock a behaviour may take.
MaxClock == 4

\* The period codes the provider uses in its rows (YYYYMM).
PeriodCodes == {202301, 202302, 202303}

\* The first published value of a period; a revision publishes one more.
BaseValue(code) == 9 + (code % 100)

\* The current date (datetime.now() of build_incremental_api_url).
Today == <<2023, 4, 15>>

---------------------------------------------------------------------------
(* Periods: canonical keys "YYYY-MM-DD" are <<year, month, day>> *)

NoPeriod == << >>

\* Order of the keys as strings: zero-padded fields, compared left to right.
StrLess(a, b) ==
    \/ a[1] < b[1]
    \/ a[1] = b[1] /\ a[2] < b[2]
    \/ a[1] = b[1] /\ a[2] = b[2] /\ a[3] < b[3]

\* datetime.strptime(key, "%Y-%m-%d") as a day count that orders the dates.
Strptime(p) == (p[1] * 12 + (p[2] - 1)) * 31 + (p[3] - 1)

\* SortedKeys in descending order.
RECURSIVE SortedKeysDescending(_)
SortedKeysDescending(S) ==
    IF S = {} THEN << >>
    ELSE LET hi == CHOOSE k \in S : \A j \in S : j = k \/ StrLess(j, k)
         IN  <<hi>> \o SortedKeysDescending(S \ {hi})

\* sorted(S) of a set of keys.
RECURSIVE SortedKeys(_)
SortedKeys(S) ==
    IF S = {} THEN << >>
    ELSE LET lo == CHOOSE k \in S : \A j \in S : j = k \/ StrLess(k, j)
         IN  <<lo>> \o SortedKeys(S \ {lo})

\* The period normalizer: a YYYYMM code becomes the first day of the month,
\* a code with no such month has no canonical period.
ParsePeriod(code) ==
    LET y == code \div 100
        m == code % 100
    IN  IF m >= 1 /\ m <= 12 THEN <<y, m, 1>> ELSE NoPeriod

EmptyMap == [k \in {} |-> 0]

---------------------------------------------------------------------------
(* The provider's answer *)

Placeholder == [tok |-> "..", n |-> 0]
Num(v) == [tok |-> "num", n |-> v]

RawValues(code) == {Num(BaseValue(code)), Num(BaseValue(code) + 1), Placeholder}

\* One row per period code: the rows of a response are a map code -> raw V.
RowSets ==
    UNION {[S -> UNION {RawValues(c) : c \in PeriodCodes}] : S \in SUBSET PeriodCodes}

WellFormedRows(rows) == \A c \in DOMAIN rows : rows[c] \in RawValues(c)

Responses ==
    {[status |-> "error", header_ok |-> TRUE, rows |-> EmptyMap]}
    \cup {[status |-> "ok", header_ok |-> FALSE, rows |-> r] :
            r \in {x \in RowSets : WellFormedRows(x) /\ Cardinality(DOMAIN x) = 1}}
    \cup {[status |-> "ok", header_ok |-> TRUE, rows |-> r] :
            r \in {x \in RowSets : WellFormedRows(x)}}

\* ParseFloat that takes every token for a number.
ParseFloatAnyToken(raw) == [ok |-> TRUE, val |-> raw.n]

\* float(raw_value) with the placeholder and NaN tests before it.
ParseFloat(raw) == [ok |-> raw.tok = "num", val |-> raw.n]

---------------------------------------------------------------------------
(* ingest_flat_series_incremental.py: the incremental fetch *)

\* The catalog record of the series.
Record ==
    [px_code |-> "X1",
     api_url |-> [path |-> "/t/1737/n1/1/v/63", p |-> "all",
                  start |-> << >>, end |-> << >>]]

IsLeap(y) == (y % 4 = 0 /\ y % 100 # 0) \/ y % 400 = 0

DaysInMonth(y, m) ==
    IF m = 2 THEN (IF IsLeap(y) THEN 29 ELSE 28)
    ELSE IF m \in {4, 6, 9, 11} THEN 30 ELSE 31

MonthAfter(ym) == IF ym[2] = 12 THEN <<ym[1] + 1, 1>> ELSE <<ym[1], ym[2] + 1>>

\* (last_dt + timedelta(days=32)).replace(day=1), as <<year, month>>.
NextMonthOf(p) ==
    LET over == p[3] + 32 - DaysInMonth(p[1], p[2])
        m1   == MonthAfter(<<p[1], p[2]>>)
    IN  IF over <= DaysInMonth(m1[1], m1[2]) THEN m1 ELSE MonthAfter(m1)

\* build_incremental_api_url: the period segment of the URL that is requested.
BuildIncrementalApiUrl(base_url, last) ==
    IF last = NoPeriod THEN base_url
    ELSE IF base_url.p = "none" THEN base_url
    ELSE [base_url EXCEPT !.p = "range",
                          !.start = NextMonthOf(last),
                          !.end = <<Today[1], Today[2]>>]

FetchRaised == [raised |-> TRUE, values |-> EmptyMap]

\* KeptCodes with the boundary period let through (< for <=).
KeptCodesFromBoundary(rows, last) ==
    {c \in DOMAIN rows :
        /\ ParseFloat(rows[c]).ok
        /\ ParsePeriod(c) # NoPeriod
        /\ (last # NoPeriod => ~(Strptime(ParsePeriod(c)) < Strptime(last)))}

\* The rows of a response that make it into new_values: a numeric V, a period
\* that normalizes, and, with a last date, a period after it.
KeptCodes(rows, last) ==
    {c \in DOMAIN rows :
        /\ ParseFloat(rows[c]).ok
        /\ ParsePeriod(c) # NoPeriod
        /\ (last # NoPeriod => ~(Strptime(ParsePeriod(c)) <= Strptime(last)))}

ValuesOfRows(rows, codes) ==
    [p \in {ParsePeriod(c) : c \in codes} |->
        ParseFloat(rows[CHOOSE c \in codes : ParsePeriod(c) = p]).val]

\* FetchIncrementalSeriesData without the test for a header alone.
FetchIncrementalNoRowTest(resp, last) ==
    IF resp.status # "ok" THEN FetchRaised
    ELSE IF ~resp.header_ok THEN FetchRaised
    ELSE [raised |-> FALSE,
          values |-> ValuesOfRows(resp.rows, KeptCodes(resp.rows, last))]

\* fetch_incremental_series_data(api_url, last_date).
FetchIncrementalSeriesData(resp, last) ==
    IF resp.status # "ok" THEN FetchRaised
    ELSE IF Cardinality(DOMAIN resp.rows) + 1 < 2 THEN FetchRaised
    ELSE IF ~resp.header_ok THEN FetchRaised
    ELSE [raised |-> FALSE,
          values |-> ValuesOfRows(resp.rows, KeptCodes(resp.rows, last))]

\* fetch_series_data(api_url) of ingest_flat_series: the whole history.
FetchSeriesData(resp) ==
    IF resp.status # "ok" THEN FetchRaised
    ELSE IF Cardinality(DOMAIN resp.rows) + 1 < 2 THEN FetchRaised
    ELSE IF ~resp.header_ok THEN FetchRaised
    ELSE [raised |-> FALSE,
          values |-> ValuesOfRows(resp.rows, KeptCodes(resp.rows, NoPeriod))]

---------------------------------------------------------------------------
(* ingest_flat_series_with_vintages.py: compare_series *)

\* 1 / rel_tol of math.isclose(old_val, new_val, rel_tol=1e-9).
RelTolInv == 1000000000

Abs(x) == IF x < 0 THEN 0 - x ELSE x
Max(a, b) == IF a >= b THEN a ELSE b

\* IsClose as exact equality.
IsCloseExact(a, b) == a = b

\* math.isclose on whole numbers: |a - b| <= rel_tol * max(|a|, |b|).
IsClose(a, b) == a = b \/ Abs(a - b) <= Max(Abs(a), Abs(b)) \div RelTolInv

NoComparison ==
    [performed |-> FALSE, added |-> << >>, removed |-> << >>, changed |-> {},
     unchanged_count |-> 0, total_changes |-> 0]

ChangedEntry(date, old_val, new_val) ==
    [date |-> date, old_value |-> old_val, new_value |-> new_val,
     change |-> new_val - old_val,
     change_pct |-> IF old_val # 0
                    THEN [none |-> FALSE, num |-> (new_val - old_val) * 100, den |-> old_val]
                    ELSE [none |-> TRUE, num |-> 0, den |-> 1]]

\* CompareSeries with the two set differences exchanged.
CompareSeriesSwapped(old_vals, new_vals) ==
    LET old_dates == DOMAIN old_vals
        new_dates == DOMAIN new_vals
        added     == old_dates \ new_dates
        removed   == new_dates \ old_dates
        common    == old_dates \cap new_dates
        changed   == {ChangedEntry(d, old_vals[d], new_vals[d]) :
                        d \in {x \in common : ~IsClose(old_vals[x], new_vals[x])}}
        unchanged == {d \in common : IsClose(old_vals[d], new_vals[d])}
    IN  [performed |-> TRUE,
         added |-> SortedKeys(added),
         removed |-> SortedKeys(removed),
         changed |-> changed,
         unchanged_count |-> Cardinality(unchanged),
         total_changes |-> Cardinality(added) + Cardinality(removed) + Cardinality(changed)]

\* compare_series(old_values, new_values); the entries of 'changed' come in
\* the iteration order of a set, so they are kept as a set.
CompareSeries(old_vals, new_vals) ==
    LET old_dates == DOMAIN old_vals
        new_dates == DOMAIN new_vals
        added     == new_dates \ old_dates
        removed   == old_dates \ new_dates
        common    == old_dates \cap new_dates
        changed   == {ChangedEntry(d, old_vals[d], new_vals[d]) :
                        d \in {x \in common : ~IsClose(old_vals[x], new_vals[x])}}
        unchanged == {d \in common : IsClose(old_vals[d], new_vals[d])}
    IN  [performed |-> TRUE,
         added |-> SortedKeys(added),
         removed |-> SortedKeys(removed),
         changed |-> changed,
         unchanged_count |-> Cardinality(unchanged),
         total_changes |-> Cardinality(added) + Cardinality(removed) + Cardinality(changed)]

---------------------------------------------------------------------------
(* The document store at flat_series/<px_code> *)

\* The metadata of a series: the fields the updates refresh and one that
\* neither script writes ('other').
NoMetadata ==
    [api_url |-> "", last_updated |-> 0, vintage_comparison |-> NoComparison,
     other |-> ""]

\* No data at the path: ref.get() gives None.
NoData == [values |-> EmptyMap, metadata |-> NoMetadata, vintages |-> EmptyMap]

\* ref.get() or {} at flat_series/<px_code>.
StoreGet(node) == node

\* existing_data.get('values', {}) and existing_data.get('metadata', {}).
ValuesOf(data) == data.values
MetadataOf(data) == data.metadata

\* ref.set(payload) at flat_series/<px_code>: the subtree becomes the payload.
StoreSet(node, payload) ==
    [values |-> payload.values, metadata |-> payload.metadata, vintages |-> EmptyMap]

\* ref.set(entry) at flat_series/<px_code>/vintages/<vintage_key>.
StoreSetVintage(node, vintage_key, entry) ==
    [node EXCEPT !.vintages =
        [k \in DOMAIN node.vintages \cup {vintage_key} |->
            IF k = vintage_key THEN entry ELSE node.vintages[k]]]

\* get_last_date_from_firebase, given whether the read raised.
GetLastDateFromFirebase(node, read_failed) ==
    IF read_failed THEN NoPeriod
    ELSE IF node = NoData \/ DOMAIN ValuesOf(node) = {} THEN NoPeriod
    ELSE LET dates == SortedKeys(DOMAIN ValuesOf(node)) IN dates[Len(dates)]

---------------------------------------------------------------------------
(* Messages and what process_record and the batch loop make of them *)

\* The message of a task: its template (kind) and the numbers put into it.
\*   "fetch_failed"  SIDRA fetch failed: ...
\*   "no_data"       No data returned from SIDRA
\*   "no_new"        No new data (last: ...)
\*   "dry_incr"      Dry-run: n new points since ...
\*   "incr_updated"  Updated: +n new points (total: ...)
\*   "dry_cmp"       Dry-run: n points, t changes detected[ (c revisions)]
\*   "dry_first"     Dry-run: n points (first ingestion)
\*   "first"         First ingestion: n points
\*   "updated"       Updated: [+a new][, -r removed][, ~c revised] (vintage saved)
\*   "nochanges"     No changes: n points (unchanged)
\*   "exception"     str(e) of an exception that left the task
Msg(kind, n, a, r, c) == [kind |-> kind, n |-> n, a |-> a, r |-> r, c |-> c]

NoMsg == Msg("", 0, 0, 0, 0)

\* "First ingestion" in message
HasFirstIngestion(m) == m.kind = "first"
\* "revised" in message
HasRevised(m) == m.kind = "updated" /\ m.c > 0
\* "changed" in message.lower()
HasChangedLower(m) == m.kind = "nochanges"
\* "No changes" in message
HasNoChanges(m) == m.kind = "nochanges"
\* "No new data" in message
HasNoNewData(m) == m.kind = "no_new"

\* process_record of the vintage ingest: result_type.
ResultTypeFull(ok, m) ==
    IF ~ok THEN "unknown"
    ELSE IF HasFirstIngestion(m) THEN "first"
    ELSE IF HasRevised(m) \/ HasChangedLower(m) THEN "changed"
    ELSE IF HasNoChanges(m) THEN "unchanged"
    ELSE "unknown"

\* process_record of the incremental update: its return value.
ResultTypeIncr(ok, m) ==
    IF ok THEN (IF HasNoNewData(m) THEN "no_update" ELSE "success")
    ELSE "failure"

ZeroCounters ==
    [successes |-> 0, failures |-> 0, with_changes |-> 0, no_changes |-> 0,
     first_ingestion |-> 0, no_updates |-> 0]

\* The loop over as_completed(futures) of the vintage ingest.
CountFull(c, ok, result_type) ==
    IF ok
    THEN [c EXCEPT !.successes = @ + 1,
                   !.first_ingestion = IF result_type = "first" THEN @ + 1 ELSE @,
                   !.with_changes = IF result_type = "changed" THEN @ + 1 ELSE @,
                   !.no_changes = IF result_type = "unchanged" THEN @ + 1 ELSE @]
    ELSE [c EXCEPT !.failures = @ + 1]

\* The loop over as_completed(futures) of the incremental update.
CountIncr(c, res) ==
    IF res = "success" THEN [c EXCEPT !.successes = @ + 1]
    ELSE IF res = "no_update" THEN [c EXCEPT !.no_updates = @ + 1]
    ELSE [c EXCEPT !.failures = @ + 1]

NoResult == [ok |-> FALSE, message |-> NoMsg, raised |-> FALSE, result_type |-> ""]

FailedEntry(m) == [px_code |-> Record.px_code, api_url |-> Record.api_url.path, error |-> m]

\* The task returns (ok, m): process_record classifies it and the loop counts it.
Finish(ok, m) ==
    /\ pc' = "done"
    /\ IF mode = "full"
       THEN /\ result' = [ok |-> ok, message |-> m, raised |-> FALSE,
                          result_type |-> ResultTypeFull(ok, m)]
            /\ failed_records' = IF ok THEN failed_records
                                 ELSE Append(failed_records, FailedEntry(m))
            /\ counters' = CountFull(counters, ok, ResultTypeFull(ok, m))
       ELSE /\ result' = [ok |-> ok, message |-> m, raised |-> FALSE,
                          result_type |-> ResultTypeIncr(ok, m)]
            /\ failed_records' = failed_records
            /\ counters' = CountIncr(counters, ResultTypeIncr(ok, m))

\* An exception leaves the task: the except branch of process_record.
FinishException ==
    /\ pc' = "done"
    /\ IF mode = "full"
       THEN /\ result' = [ok |-> FALSE, message |-> Msg("exception", 0, 0, 0, 0),
                          raised |-> TRUE, result_type |-> "error"]
            /\ failed_records' =
                   Append(failed_records, FailedEntry(Msg("exception", 0, 0, 0, 0)))
            /\ counters' = CountFull(counters, FALSE, "error")
       ELSE /\ result' = [ok |-> FALSE, message |-> Msg("exception", 0, 0, 0, 0),
                          raised |-> TRUE, result_type |-> "failure"]
            /\ failed_records' = failed_records
            /\ counters' = CountIncr(counters, "failure")

---------------------------------------------------------------------------
(* The state machine *)

NoResponse == [status |-> "", header_ok |-> FALSE, rows |-> EmptyMap]

\* No call of compare_series on its own is under way.
CompareIdle ==
    /\ cmp_pc = "idle"
    /\ cmp_old = EmptyMap
    /\ cmp_new = EmptyMap
    /\ cmp_result = NoComparison

NoLog == [written |-> FALSE, total_failed |-> 0, failed_records |-> << >>]

\* No batch run over several records is under way.
BatchIdle ==
    /\ b_pc = "idle"
    /\ b_args = [mode |-> "incr", dry_run |-> FALSE, resume |-> FALSE, dataset |-> ""]
    /\ b_store = EmptyMap
    /\ b_pre = EmptyMap
    /\ b_existing_px = {}
    /\ b_to_process = << >>
    /\ b_skipped = 0
    /\ b_tasks = << >>
    /\ b_counters = ZeroCounters
    /\ b_failed = << >>
    /\ b_log = NoLog

\* No call of update_dataset_prioritized is under way.
SmartIdle ==
    /\ s_pc = "idle"
    /\ s_args = [dataset |-> "", national_first |-> TRUE]
    /\ s_catalog = << >>
    /\ s_national = << >>
    /\ s_regional = << >>
    /\ s_tasks = << >>
    /\ s_total_updated = 0
    /\ s_total_failed = 0
    /\ s_failed_records = << >>
    /\ s_log = NoLog
    /\ s_return = ""

\* No call of fetch_incremental_series_data on its own is under way.
FetchIdle ==
    /\ ft_pc = "idle"
    /\ ft_api_url = Record.api_url
    /\ ft_last = NoPeriod
    /\ ft_resp = NoResponse
    /\ ft_request = Record.api_url
    /\ ft_result = FetchRaised

\* No results file.
NoFile == [written |-> FALSE, datasets_updated |-> << >>, results |-> << >>,
           success_count |-> 0, failure_count |-> 0]

\* The scheduler is not run.
AutoIdle ==
    /\ a_pc = "idle"
    /\ a_today = <<1, 1>>
    /\ a_runs = 0
    /\ a_logs = << >>
    /\ a_last = << >>
    /\ a_selected = << >>
    /\ a_attempts = << >>
    /\ a_results = << >>
    /\ a_file = NoFile

\* No batch is watched at the grain of its lock.
LockIdle ==
    /\ k_script = "none"
    /\ k_lock = 0
    /\ k_tasks = << >>
    /\ k_failed = << >>
    /\ k_counters = [updated |-> 0, failed |-> 0]
    /\ k_collected = {}

\* The series before its first task.
SeriesIdle ==
    /\ store = NoData
    /\ clock = 1
    /\ pc = "idle"
    /\ mode = "incr"
    /\ dry_run = FALSE
    /\ last_date = NoPeriod
    /\ request = Record.api_url
    /\ response = NoResponse
    /\ new_values = EmptyMap
    /\ existing = NoData
    /\ comparison = NoComparison
    /\ has_changes = FALSE
    /\ writes = << >>
    /\ result = NoResult
    /\ counters = ZeroCounters
    /\ failed_records = << >>
    /\ pre = NoData
    /\ prev_task = "other"

Init == SeriesIdle /\ CompareIdle /\ BatchIdle /\ SmartIdle /\ FetchIdle /\ LockIdle /\ AutoIdle

\* main() of either script starts a batch with the one record of the series.
Start(m, d) ==
    /\ pc \in {"idle", "done"}
    /\ clock + 2 <= MaxClock
    /\ mode' = m
    /\ dry_run' = d
    /\ pc' = IF m = "incr" THEN "i_last" ELSE "f_fetch"
    /\ pre' = store
    /\ prev_task' = IF pc = "done" /\ mode = "incr" /\ ~dry_run /\ result.ok
                    THEN "incr_ok" ELSE "other"
    /\ last_date' = NoPeriod
    /\ request' = Record.api_url
    /\ response' = NoResponse
    /\ new_values' = EmptyMap
    /\ existing' = NoData
    /\ comparison' = NoComparison
    /\ has_changes' = FALSE
    /\ writes' = << >>
    /\ result' = NoResult
    /\ counters' = ZeroCounters
    /\ failed_records' = << >>
    /\ UNCHANGED <<store, clock>>
    /\ UNCHANGED otherVars

WriteEntry(kind, ok, key, values, metadata) ==
    [kind |-> kind, ok |-> ok, key |-> key, values |-> values, metadata |-> metadata]

(* update_record_incremental *)

\* last_date = get_last_date_from_firebase(px_code)
IncrGetLast(read_failed) ==
    /\ pc = "i_last"
    /\ last_date' = GetLastDateFromFirebase(store, read_failed)
    /\ pc' = "i_fetch"
    /\ UNCHANGED <<store, clock, mode, dry_run, request, response, new_values,
                   existing, comparison, has_changes, writes, result, counters,
                   failed_records, pre, prev_task>>
    /\ UNCHANGED otherVars

\* fetch_incremental_series_data and the two early returns after it
IncrFetch(resp) ==
    /\ pc = "i_fetch"
    /\ request' = BuildIncrementalApiUrl(Record.api_url, last_date)
    /\ response' = resp
    /\ LET got == FetchIncrementalSeriesData(resp, last_date)
       IN  /\ new_values' = got.values
           /\ IF got.raised THEN Finish(FALSE, Msg("fetch_failed", 0, 0, 0, 0))
              ELSE IF DOMAIN got.values = {} THEN Finish(TRUE, Msg("no_new", 0, 0, 0, 0))
              ELSE IF dry_run
                   THEN Finish(TRUE, Msg("dry_incr", Cardinality(DOMAIN got.values), 0, 0, 0))
              ELSE /\ pc' = "i_read"
                   /\ UNCHANGED <<result, counters, failed_records>>
    /\ UNCHANGED <<store, clock, mode, dry_run, last_date, existing, comparison,
                   has_changes, writes, pre, prev_task>>
    /\ UNCHANGED otherVars

\* existing_data = ref.get() or {}
IncrRead(read_failed) ==
    /\ pc = "i_read"
    /\ IF read_failed
       THEN /\ FinishException
            /\ UNCHANGED existing
       ELSE /\ existing' = StoreGet(store)
            /\ pc' = "i_write"
            /\ UNCHANGED <<result, counters, failed_records>>
    /\ UNCHANGED <<store, clock, mode, dry_run, last_date, request, response,
                   new_values, comparison, has_changes, writes, pre, prev_task>>
    /\ UNCHANGED otherVars

\* MergeValues with the stored value winning where both have the key.
MergeValuesKeepExisting(existing_values, fetched) ==
    [k \in DOMAIN existing_values \cup DOMAIN fetched |->
        IF k \in DOMAIN existing_values THEN existing_values[k] ELSE fetched[k]]

\* merged_values = {**existing_values, **new_values}
MergeValues(existing_values, fetched) ==
    [k \in DOMAIN existing_values \cup DOMAIN fetched |->
        IF k \in DOMAIN fetched THEN fetched[k] ELSE existing_values[k]]

\* IncrPayload that writes the fetched values alone.
IncrPayloadFetchedOnly(data, fetched, now) ==
    [metadata |-> [MetadataOf(data) EXCEPT !.api_url = Record.api_url.path,
                                           !.last_updated = now],
     values |-> fetched]

\* IncrPayload with metadata that starts from nothing.
IncrPayloadNewMetadata(data, fetched, now) ==
    [metadata |-> [NoMetadata EXCEPT !.api_url = Record.api_url.path,
                                     !.last_updated = now],
     values |-> MergeValues(ValuesOf(data), fetched)]

\* The payload of update_record_incremental.
IncrPayload(data, fetched, now) ==
    [metadata |-> [MetadataOf(data) EXCEPT !.api_url = Record.api_url.path,
                                           !.last_updated = now],
     values |-> MergeValues(ValuesOf(data), fetched)]

\* ref.set(payload) and the return after it
IncrWrite(write_failed) ==
    /\ pc = "i_write"
    /\ clock' = clock + 1
    /\ LET payload == IncrPayload(existing, new_values, clock)
       IN  /\ writes' = Append(writes, WriteEntry("live", ~write_failed, 0,
                                                  payload.values, payload.metadata))
           /\ IF write_failed
              THEN /\ FinishException
                   /\ UNCHANGED store
              ELSE /\ store' = StoreSet(store, payload)
                   /\ Finish(TRUE, Msg("incr_updated", Cardinality(DOMAIN new_values),
                                       0, 0, 0))
    /\ UNCHANGED <<mode, dry_run, last_date, request, response, new_values,
                   existing, comparison, has_changes, pre, prev_task>>
    /\ UNCHANGED otherVars

(* ingest_record_with_vintages *)

\* fetch_series_data and the two early returns after it
FullFetch(resp) ==
    /\ pc = "f_fetch"
    /\ response' = resp
    /\ LET got == FetchSeriesData(resp)
       IN  /\ new_values' = got.values
           /\ IF got.raised THEN Finish(FALSE, Msg("fetch_failed", 0, 0, 0, 0))
              ELSE IF DOMAIN got.values = {} THEN Finish(FALSE, Msg("no_data", 0, 0, 0, 0))
              ELSE /\ pc' = "f_read"
                   /\ UNCHANGED <<result, counters, failed_records>>
    /\ UNCHANGED <<store, clock, mode, dry_run, last_date, request, existing,
                   comparison, has_changes, writes, pre, prev_task>>
    /\ UNCHANGED otherVars

\* ComparisonOf without the test for stored values.
ComparisonOfAlways(old_values, fetched) == CompareSeries(old_values, fetched)

\* comparison of the stored values with the fetched ones
ComparisonOf(old_values, fetched) ==
    IF DOMAIN old_values # {} THEN CompareSeries(old_values, fetched) ELSE NoComparison

\* HasChanges that looks at the revised values alone.
HasChangesRevisedOnly(cmp) == cmp.performed /\ Cardinality(cmp.changed) > 0

\* has_changes = comparison['total_changes'] > 0
HasChanges(cmp) == cmp.performed /\ cmp.total_changes > 0

\* SavesVintage without the test for a dry run.
SavesVintageInDryRun(changes, dry) == changes

\* if has_changes: if not dry_run: save_vintage(...)
SavesVintage(changes, dry) == changes /\ ~dry

\* The message of a dry run.
DryRunMessage(cmp, fetched) ==
    IF cmp.performed
    THEN Msg("dry_cmp", Cardinality(DOMAIN fetched), 0, 0, Cardinality(cmp.changed))
    ELSE Msg("dry_first", Cardinality(DOMAIN fetched), 0, 0, 0)

\* existing_data = ref.get() or {}, the comparison, and the dry-run return
FullRead(read_failed) ==
    /\ pc = "f_read"
    /\ IF read_failed
       THEN /\ FinishException
            /\ UNCHANGED <<existing, comparison, has_changes>>
       ELSE LET data == StoreGet(store)
                cmp  == ComparisonOf(ValuesOf(data), new_values)
            IN  /\ existing' = data
                /\ comparison' = cmp
                /\ has_changes' = HasChanges(cmp)
                /\ IF SavesVintage(HasChanges(cmp), dry_run)
                   THEN /\ pc' = "f_vintage"
                        /\ UNCHANGED <<result, counters, failed_records>>
                   ELSE IF dry_run THEN Finish(TRUE, DryRunMessage(cmp, new_values))
                   ELSE /\ pc' = "f_write"
                        /\ UNCHANGED <<result, counters, failed_records>>
    /\ UNCHANGED <<store, clock, mode, dry_run, last_date, request, response,
                   new_values, writes, pre, prev_task>>
    /\ UNCHANGED otherVars

\* VintageEntry that archives the fetched values.
VintageEntryOfFetched(data, fetched, now) ==
    [timestamp |-> now, values |-> fetched, metadata_snapshot |-> MetadataOf(data)]

\* The entry save_vintage(px_code, old_values, old_metadata) writes.
VintageEntry(data, fetched, now) ==
    [timestamp |-> now, values |-> ValuesOf(data), metadata_snapshot |-> MetadataOf(data)]

\* save_vintage: ref.set at vintages/<vintage_key>
FullVintage(write_failed) ==
    /\ pc = "f_vintage"
    /\ clock' = clock + 1
    /\ LET entry == VintageEntry(existing, new_values, clock)
       IN  /\ writes' = Append(writes, WriteEntry("vintage", ~write_failed, clock,
                                                  entry.values, entry.metadata_snapshot))
           /\ IF write_failed
              THEN /\ FinishException
                   /\ UNCHANGED store
              ELSE /\ store' = StoreSetVintage(store, clock, entry)
                   /\ pc' = "f_write"
                   /\ UNCHANGED <<result, counters, failed_records>>
    /\ UNCHANGED <<mode, dry_run, last_date, request, response, new_values,
                   existing, comparison, has_changes, pre, prev_task>>
    /\ UNCHANGED otherVars

\* FullPayload with the fetched values merged into the stored ones.
FullPayloadMerged(data, fetched, cmp, now) ==
    [metadata |-> [MetadataOf(data) EXCEPT !.api_url = Record.api_url.path,
                                           !.last_updated = now,
                                           !.vintage_comparison = cmp],
     values |-> MergeValues(ValuesOf(data), fetched)]

\* The payload of ingest_record_with_vintages.
FullPayload(data, fetched, cmp, now) ==
    [metadata |-> [MetadataOf(data) EXCEPT !.api_url = Record.api_url.path,
                                           !.last_updated = now,
                                           !.vintage_comparison = cmp],
     values |-> fetched]

\* The message after the live write.
FullMessage(old_values, fetched, cmp, changes) ==
    IF DOMAIN old_values = {} THEN Msg("first", Cardinality(DOMAIN fetched), 0, 0, 0)
    ELSE IF changes
         THEN Msg("updated", 0, Len(cmp.added), Len(cmp.removed), Cardinality(cmp.changed))
    ELSE Msg("nochanges", Cardinality(DOMAIN fetched), 0, 0, 0)

\* ref.set(payload) and the return after it
FullWrite(write_failed) ==
    /\ pc = "f_write"
    /\ clock' = clock + 1
    /\ LET payload == FullPayload(existing, new_values, comparison, clock)
       IN  /\ writes' = Append(writes, WriteEntry("live", ~write_failed, 0,
                                                  payload.values, payload.metadata))
           /\ IF write_failed
              THEN /\ FinishException
                   /\ UNCHANGED store
              ELSE /\ store' = StoreSet(store, payload)
                   /\ Finish(TRUE, FullMessage(ValuesOf(existing), new_values,
                                               comparison, has_changes))
    /\ UNCHANGED <<mode, dry_run, last_date, request, response, new_values,
                   existing, comparison, has_changes, pre, prev_task>>
    /\ UNCHANGED otherVars

Next ==
    \/ \E m \in {"incr", "full"}, d \in BOOLEAN : Start(m, d)
    \/ \E f \in BOOLEAN : IncrGetLast(f)
    \/ \E resp \in Responses : IncrFetch(resp)
    \/ \E f \in BOOLEAN : IncrRead(f)
    \/ \E f \in BOOLEAN : IncrWrite(f)
    \/ \E resp \in Responses : FullFetch(resp)
    \/ \E f \in BOOLEAN : FullRead(f)
    \/ \E f \in BOOLEAN : FullVintage(f)
    \/ \E f \in BOOLEAN : FullWrite(f)

Spec == Init /\ [][Next]_vars

---------------------------------------------------------------------------
(* compare_series on its own *)

\* The periods and the values of the maps compare_series is called with; the
\* two values of the last period are within the tolerance of each other.
CmpPeriods == {<<2024, 1, 1>>, <<2024, 2, 1>>, <<2024, 3, 1>>}
CmpValues(p) == IF p = <<2024, 3, 1>> THEN {2000000000, 2000000001} ELSE {0, 1, 2}
CmpMaps ==
    UNION {{f \in [S -> UNION {CmpValues(p) : p \in S}] :
               \A p \in S : f[p] \in CmpValues(p)} :
              S \in SUBSET CmpPeriods}

InitCompare ==
    /\ SeriesIdle
    /\ BatchIdle
    /\ SmartIdle
    /\ FetchIdle
    /\ LockIdle
    /\ AutoIdle
    /\ cmp_pc = "input"
    /\ cmp_old \in CmpMaps
    /\ cmp_new \in CmpMaps
    /\ cmp_result = NoComparison

\* compare_series(old_values, new_values) returns.
CompareCall ==
    /\ cmp_pc = "input"
    /\ cmp_result' = CompareSeries(cmp_old, cmp_new)
    /\ cmp_pc' = "done"
    /\ UNCHANGED <<cmp_old, cmp_new>>
    /\ UNCHANGED notCmpVars

NextCompare == CompareCall

SpecCompare == InitCompare /\ [][NextCompare]_vars

---------------------------------------------------------------------------
(* main() of both scripts: a batch over the records of a dataset *)

\* Records in the catalog.
NRecords == 3

\* max_workers of the pool.
Workers == 2

\* One record of the catalog; the last one belongs to another dataset.
CatalogRecord(i) ==
    [px_code |-> <<"PX", i>>, label |-> <<"label", i>>,
     dataset |-> IF i = NRecords THEN "inpc" ELSE "ipca",
     api_url |-> IF i % 2 = 1 THEN "/t/1737/n1/1/v/63" ELSE "/t/1737/n3/all/v/63"]

\* load_catalog(): the records of the catalog, each identifier once.
LoadCatalog == [i \in 1..NRecords |-> CatalogRecord(i)]

PxCodes == {LoadCatalog[i].px_code : i \in 1..NRecords}

\* filtered = [r for r in catalog if r["dataset"] == args.dataset]
Filtered(catalog, dataset) == SelectSeq(catalog, LAMBDA r : r.dataset = dataset)

\* A series that has been ingested before the batch: one point.
StoredNode ==
    [values |-> ValuesOfRows([c \in {202301} |-> Num(BaseValue(c))], {202301}),
     metadata |-> [NoMetadata EXCEPT !.last_updated = 1, !.other = "kept"],
     vintages |-> EmptyMap]

\* What the provider answers in a batch: a transport error, a header alone, a
\* header without a period column, the stored point, a revision with a new point.
BatchRows ==
    {EmptyMap,
     [c \in {202301} |-> Num(BaseValue(c))],
     [c \in {202301, 202302} |-> Num(BaseValue(202301) + 1)]}
BatchResponses == {r \in Responses : r.rows \in BatchRows}

\* The call of a task that raises: none, the read of the last date (the
\* incremental update alone), the read of the record, the vintage write (the
\* vintage ingest alone), the live write.
Faults(script) ==
    IF script = "incr" THEN {"none", "last", "read", "write"}
    ELSE {"none", "read", "vintage", "write"}

\* What a call of an update function comes to: it raised, or returned
\* (ok, message); node is the subtree of the series after it.
Returned(ok, m, node) == [raised |-> FALSE, ok |-> ok, message |-> m, node |-> node]
Raised(node) ==
    [raised |-> TRUE, ok |-> FALSE, message |-> Msg("exception", 0, 0, 0, 0), node |-> node]

\* payload with the endpoint of the record in its metadata.
PayloadOf(rec, payload) == [payload EXCEPT !.metadata.api_url = rec.api_url]

\* update_record_incremental(record, dry_run) on the subtree of the record.
UpdateRecordIncremental(rec, node, resp, fault, dry, now) ==
    LET last == GetLastDateFromFirebase(node, fault = "last")
        got  == FetchIncrementalSeriesData(resp, last)
        n    == Cardinality(DOMAIN got.values)
    IN  IF got.raised THEN Returned(FALSE, Msg("fetch_failed", 0, 0, 0, 0), node)
        ELSE IF n = 0 THEN Returned(TRUE, Msg("no_new", 0, 0, 0, 0), node)
        ELSE IF dry THEN Returned(TRUE, Msg("dry_incr", n, 0, 0, 0), node)
        ELSE IF fault \in {"read", "write"} THEN Raised(node)
        ELSE Returned(TRUE, Msg("incr_updated", n, 0, 0, 0),
                      StoreSet(node, PayloadOf(rec, IncrPayload(StoreGet(node),
                                                               got.values, now))))

\* ingest_record_with_vintages(record, dry_run) on the subtree of the record.
IngestRecordWithVintages(rec, node, resp, fault, dry, now) ==
    LET got      == FetchSeriesData(resp)
        data     == StoreGet(node)
        cmp      == ComparisonOf(ValuesOf(data), got.values)
        changes  == HasChanges(cmp)
        archived == IF SavesVintage(changes, dry)
                    THEN StoreSetVintage(node, now, VintageEntry(data, got.values, now))
                    ELSE node
    IN  IF got.raised THEN Returned(FALSE, Msg("fetch_failed", 0, 0, 0, 0), node)
        ELSE IF DOMAIN got.values = {}
             THEN Returned(FALSE, Msg("no_data", 0, 0, 0, 0), node)
        ELSE IF fault = "read" THEN Raised(node)
        ELSE IF SavesVintage(changes, dry) /\ fault = "vintage" THEN Raised(node)
        ELSE IF dry THEN Returned(TRUE, DryRunMessage(cmp, got.values), node)
        ELSE IF fault = "write" THEN Raised(archived)
        ELSE Returned(TRUE, FullMessage(ValuesOf(data), got.values, cmp, changes),
                      StoreSet(archived, PayloadOf(rec, FullPayload(data, got.values,
                                                                    cmp, now))))

\* The entry process_record appends to failed_records.
FailedRecord(rec, m) ==
    [px_code |-> rec.px_code, label |-> rec.label, api_url |-> rec.api_url, error |-> m]

\* process_record without its except branch: the exception leaves the task.
ProcessRecordNoExcept(script, out) ==
    [raised |-> out.raised, ok |-> out.ok, message |-> out.message,
     result_type |-> IF script = "full" THEN ResultTypeFull(out.ok, out.message)
                     ELSE ResultTypeIncr(out.ok, out.message)]

\* process_record: what the future of the task holds. An exception of the
\* update function is caught and becomes a failure.
ProcessRecord(script, out) ==
    IF out.raised
    THEN [raised |-> FALSE, ok |-> FALSE, message |-> out.message,
          result_type |-> IF script = "full" THEN "error" ELSE "failure"]
    ELSE [raised |-> FALSE, ok |-> out.ok, message |-> out.message,
          result_type |-> IF script = "full" THEN ResultTypeFull(out.ok, out.message)
                          ELSE ResultTypeIncr(out.ok, out.message)]

\* The scripts and the arguments they are run with; only the vintage ingest
\* has --resume, and "pib" is a dataset with no record.
BatchArgs ==
    {a \in [mode : {"incr", "full"}, dry_run : BOOLEAN, resume : BOOLEAN,
            dataset : {"ipca", "inpc", "pib"}] : a.mode = "incr" => ~a.resume}

\* flat_series before the batch: the first k series of "ipca" ingested, the
\* others and the series of "inpc" not yet.
BatchStores ==
    {[px \in PxCodes |-> IF px[2] <= k THEN StoredNode ELSE NoData] : k \in 0..NRecords - 1}

InitBatch ==
    /\ SeriesIdle
    /\ CompareIdle
    /\ SmartIdle
    /\ FetchIdle
    /\ LockIdle
    /\ AutoIdle
    /\ b_pc = "main"
    /\ b_args \in BatchArgs
    /\ b_store \in BatchStores
    /\ b_pre = b_store
    /\ b_existing_px = {}
    /\ b_to_process = << >>
    /\ b_skipped = 0
    /\ b_tasks = << >>
    /\ b_counters = ZeroCounters
    /\ b_failed = << >>
    /\ b_log = NoLog

\* set(snapshot.keys()) of get_reference("flat_series").get(shallow=True)
ExistingPx(st) == {px \in DOMAIN st : st[px] # NoData}

\* to_process of the vintage ingest.
ToProcess(filtered, resume, existing_px) ==
    SelectSeq(filtered, LAMBDA r : (resume /\ r.px_code \in existing_px) \/ ~resume)

\* main() up to the pool: the records of the dataset and, with --resume, the
\* identifiers in the store.
SelectRecords(read_failed) ==
    /\ b_pc = "main"
    /\ LET filtered == Filtered(LoadCatalog, b_args.dataset)
           found    == IF b_args.resume /\ ~read_failed THEN ExistingPx(b_store) ELSE {}
           chosen   == IF b_args.mode = "full"
                       THEN ToProcess(filtered, b_args.resume, found)
                       ELSE filtered
       IN  IF filtered = << >>
           THEN /\ b_pc' = "done"
                /\ UNCHANGED <<b_existing_px, b_to_process, b_skipped>>
           ELSE /\ b_pc' = "submit"
                /\ b_existing_px' = found
                /\ b_to_process' = chosen
                /\ b_skipped' = Len(filtered) - Len(chosen)
    /\ UNCHANGED <<b_args, b_store, b_pre, b_tasks, b_counters, b_failed, b_log>>
    /\ UNCHANGED notBatchVars

NewTask(rec) ==
    [rec |-> rec, st |-> "queued", fetch_failed |-> FALSE, raised |-> FALSE,
     ok |-> FALSE, message |-> NoMsg, result_type |-> ""]

\* Submitted with every record submitted twice.
SubmittedTwice(records) == records \o records

\* The records the futures are made of, in order.
Submitted(records) == records

\* executor.submit(process_record, (idx, rec)) for every record
Submit ==
    /\ b_pc = "submit"
    /\ b_tasks' = [i \in 1..Len(Submitted(b_to_process)) |->
                      NewTask(Submitted(b_to_process)[i])]
    /\ b_pc' = "pool"
    /\ UNCHANGED <<b_args, b_store, b_pre, b_existing_px, b_to_process, b_skipped,
                   b_counters, b_failed, b_log>>
    /\ UNCHANGED notBatchVars

TasksIn(states) == {i \in 1..Len(b_tasks) : b_tasks[i].st \in states}

\* datetime.now() of a task: later than that of the tasks that have returned.
BatchNow == 2 + Cardinality(TasksIn({"returned", "counted"}))

\* A worker of the pool takes the task.
TaskBegin(i) ==
    /\ b_pc = "pool"
    /\ b_tasks[i].st = "queued"
    /\ Cardinality(TasksIn({"running"})) < Workers
    /\ b_tasks' = [b_tasks EXCEPT ![i].st = "running"]
    /\ UNCHANGED <<b_pc, b_args, b_store, b_pre, b_existing_px, b_to_process,
                   b_skipped, b_counters, b_failed, b_log>>
    /\ UNCHANGED notBatchVars

\* The answer of the provider is one no fetch succeeds on: the transport
\* failed, it has fewer than two rows, or its header has no period column.
FetchFails(resp) ==
    \/ resp.status # "ok"
    \/ Cardinality(DOMAIN resp.rows) + 1 < 2
    \/ ~resp.header_ok

\* process_record runs the update function of the script and returns; the
\* task keeps whether the answer of the provider was one no fetch succeeds on.
TaskEnd(i, resp, fault) ==
    /\ b_pc = "pool"
    /\ b_tasks[i].st = "running"
    /\ LET rec == b_tasks[i].rec
           out == IF b_args.mode = "full"
                  THEN IngestRecordWithVintages(rec, b_store[rec.px_code], resp, fault,
                                                b_args.dry_run, BatchNow)
                  ELSE UpdateRecordIncremental(rec, b_store[rec.px_code], resp, fault,
                                               b_args.dry_run, BatchNow)
           fut == ProcessRecord(b_args.mode, out)
       IN  /\ b_store' = [b_store EXCEPT ![rec.px_code] = out.node]
           /\ b_failed' = IF b_args.mode = "full" /\ ~fut.ok /\ ~fut.raised
                          THEN Append(b_failed, FailedRecord(rec, fut.message))
                          ELSE b_failed
           /\ b_tasks' = [b_tasks EXCEPT ![i] =
                             [rec |-> rec, st |-> "returned",
                              fetch_failed |-> FetchFails(resp),
                              raised |-> fut.raised, ok |-> fut.ok,
                              message |-> fut.message,
                              result_type |-> fut.result_type]]
    /\ UNCHANGED <<b_pc, b_args, b_pre, b_existing_px, b_to_process, b_skipped,
                   b_counters, b_log>>
    /\ UNCHANGED notBatchVars

\* One round of the loop over as_completed(futures): future.result() is
\* counted, or raises what the task raised.
Collect(i) ==
    /\ b_pc = "pool"
    /\ b_tasks[i].st = "returned"
    /\ b_tasks' = [b_tasks EXCEPT ![i].st = "counted"]
    /\ IF b_tasks[i].raised
       THEN /\ b_pc' = "crashed"
            /\ UNCHANGED b_counters
       ELSE /\ b_pc' = b_pc
            /\ b_counters' = IF b_args.mode = "full"
                             THEN CountFull(b_counters, b_tasks[i].ok,
                                            b_tasks[i].result_type)
                             ELSE CountIncr(b_counters, b_tasks[i].result_type)
    /\ UNCHANGED <<b_args, b_store, b_pre, b_existing_px, b_to_process, b_skipped,
                   b_failed, b_log>>
    /\ UNCHANGED notBatchVars

\* After the pool: the vintage ingest writes failed_records to the log file
\* when there are any; then the summary.
WriteLog ==
    /\ b_pc = "pool"
    /\ TasksIn({"counted"}) = 1..Len(b_tasks)
    /\ b_log' = IF b_args.mode = "full" /\ b_failed # << >>
                THEN [written |-> TRUE, total_failed |-> Len(b_failed),
                      failed_records |-> b_failed]
                ELSE b_log
    /\ b_pc' = "done"
    /\ UNCHANGED <<b_args, b_store, b_pre, b_existing_px, b_to_process, b_skipped,
                   b_tasks, b_counters, b_failed>>
    /\ UNCHANGED notBatchVars

NextBatch ==
    \/ \E f \in BOOLEAN : SelectRecords(f)
    \/ Submit
    \/ \E i \in 1..Len(b_tasks) : TaskBegin(i)
    \/ \E i \in 1..Len(b_tasks), resp \in BatchResponses, fault \in Faults(b_args.mode) :
          TaskEnd(i, resp, fault)
    \/ \E i \in 1..Len(b_tasks) : Collect(i)
    \/ WriteLog

SpecBatch == InitBatch /\ [][NextBatch]_vars

---------------------------------------------------------------------------
(* smart_update_scheduler.py: update_dataset_prioritized *)

NationalUrl == "/t/1737/n1/1/v/63"
RegionalUrl == "/t/1737/n3/all/v/63"

\* The segments of an endpoint between its slashes.
UrlSegments(api_url) ==
    CASE api_url = NationalUrl -> <<"t", "1737", "n1", "1", "v", "63">>
      [] api_url = RegionalUrl -> <<"t", "1737", "n3", "all", "v", "63">>
      [] OTHER -> << >>

\* '/n1/1/' in api_url
IsNational(api_url) ==
    LET seg == UrlSegments(api_url)
    IN  \E k \in 1..Len(seg) : k + 1 < Len(seg) /\ seg[k] = "n1" /\ seg[k + 1] = "1"

\* The catalogs load_catalog() may return: the records of LoadCatalog, each
\* with a national or a regional endpoint and in one of two datasets.
SmartCatalogs ==
    {[i \in 1..NRecords |-> [LoadCatalog[i] EXCEPT !.api_url = urls[i],
                                                    !.dataset = datasets[i]]] :
        urls \in [1..NRecords -> {NationalUrl, RegionalUrl}],
        datasets \in [1..NRecords -> {"ipca", "inpc"}]}

\* filter_national_series(catalog, dataset)
FilterNationalSeries(catalog, dataset) ==
    LET dataset_series == Filtered(catalog, dataset)
    IN  [national |-> SelectSeq(dataset_series, LAMBDA r : IsNational(r.api_url)),
         regional |-> SelectSeq(dataset_series, LAMBDA r : ~IsNational(r.api_url))]

InitSmart ==
    /\ SeriesIdle
    /\ CompareIdle
    /\ BatchIdle
    /\ FetchIdle
    /\ LockIdle
    /\ AutoIdle
    /\ s_pc = "start"
    /\ s_args \in [dataset : {"ipca", "inpc"}, national_first : BOOLEAN]
    /\ s_catalog \in SmartCatalogs
    /\ s_national = << >>
    /\ s_regional = << >>
    /\ s_tasks = << >>
    /\ s_total_updated = 0
    /\ s_total_failed = 0
    /\ s_failed_records = << >>
    /\ s_log = NoLog
    /\ s_return = ""

\* national, regional = filter_national_series(catalog, dataset)
SmartFilter ==
    /\ s_pc = "start"
    /\ s_national' = FilterNationalSeries(s_catalog, s_args.dataset).national
    /\ s_regional' = FilterNationalSeries(s_catalog, s_args.dataset).regional
    /\ s_pc' = "phase1"
    /\ UNCHANGED <<s_args, s_catalog, s_tasks, s_total_updated, s_total_failed,
                   s_failed_records, s_log, s_return>>
    /\ UNCHANGED notSmartVars

SmartTask(rec, phase_name) == [rec |-> rec, phase |-> phase_name, st |-> "queued"]

PhaseTasks(records, phase_name) ==
    [i \in 1..Len(records) |-> SmartTask(records[i], phase_name)]

\* Phase 1: the national series are submitted when national_first is set and
\* there are any.
Phase1Submit ==
    /\ s_pc = "phase1"
    /\ IF s_args.national_first /\ s_national # << >>
       THEN /\ s_tasks' = PhaseTasks(s_national, "NATIONAL")
            /\ s_pc' = "pool1"
       ELSE /\ s_tasks' = s_tasks
            /\ s_pc' = "phase2"
    /\ UNCHANGED <<s_args, s_catalog, s_national, s_regional, s_total_updated,
                   s_total_failed, s_failed_records, s_log, s_return>>
    /\ UNCHANGED notSmartVars

SmartTasksIn(states) == {i \in 1..Len(s_tasks) : s_tasks[i].st \in states}

\* A worker of the pool takes the task.
SmartTaskBegin(i) ==
    /\ s_pc \in {"pool1", "pool2"}
    /\ s_tasks[i].st = "queued"
    /\ Cardinality(SmartTasksIn({"running"})) < Workers
    /\ s_tasks' = [s_tasks EXCEPT ![i].st = "running"]
    /\ UNCHANGED <<s_pc, s_args, s_catalog, s_national, s_regional, s_total_updated,
                   s_total_failed, s_failed_records, s_log, s_return>>
    /\ UNCHANGED notSmartVars

\* What ingest_record(record, dry_run=False) comes to: (True, msg),
\* (False, msg) or an exception.
IngestOutcomes == {"ok", "failed", "raised"}

\* process_record(record, phase_name): ingest_record, then the counters and
\* failed_records under print_lock.
SmartTaskEnd(i, outcome) ==
    /\ s_pc \in {"pool1", "pool2"}
    /\ s_tasks[i].st = "running"
    /\ s_tasks' = [s_tasks EXCEPT ![i].st = "done"]
    /\ IF outcome = "ok"
       THEN /\ s_total_updated' = s_total_updated + 1
            /\ UNCHANGED <<s_total_failed, s_failed_records>>
       ELSE /\ s_total_failed' = s_total_failed + 1
            /\ s_failed_records' =
                   Append(s_failed_records,
                          [px_code |-> s_tasks[i].rec.px_code, error |-> outcome])
            /\ UNCHANGED s_total_updated
    /\ UNCHANGED <<s_pc, s_args, s_catalog, s_national, s_regional, s_log, s_return>>
    /\ UNCHANGED notSmartVars

\* PoolJoined that does not wait for the futures.
PoolJoinedAtOnce(tasks) == TRUE

\* The loop over as_completed(futures) and the exit of the with block are
\* over: every future of the pool is done.
PoolJoined(tasks) == \A i \in 1..Len(tasks) : tasks[i].st = "done"

\* The end of phase 1.
Phase1Join ==
    /\ s_pc = "pool1"
    /\ PoolJoined(s_tasks)
    /\ s_pc' = "phase2"
    /\ UNCHANGED <<s_args, s_catalog, s_national, s_regional, s_tasks, s_total_updated,
                   s_total_failed, s_failed_records, s_log, s_return>>
    /\ UNCHANGED notSmartVars

\* Phase 2: the regional series are submitted when there are any.
Phase2Submit ==
    /\ s_pc = "phase2"
    /\ IF s_regional # << >>
       THEN /\ s_tasks' = s_tasks \o PhaseTasks(s_regional, "REGIONAL")
            /\ s_pc' = "pool2"
       ELSE /\ s_tasks' = s_tasks
            /\ s_pc' = "log"
    /\ UNCHANGED <<s_args, s_catalog, s_national, s_regional, s_total_updated,
                   s_total_failed, s_failed_records, s_log, s_return>>
    /\ UNCHANGED notSmartVars

\* The end of phase 2.
Phase2Join ==
    /\ s_pc = "pool2"
    /\ PoolJoined(s_tasks)
    /\ s_pc' = "log"
    /\ UNCHANGED <<s_args, s_catalog, s_national, s_regional, s_tasks, s_total_updated,
                   s_total_failed, s_failed_records, s_log, s_return>>
    /\ UNCHANGED notSmartVars

\* The failures are saved when there are any; return total_failed == 0.
SmartLog ==
    /\ s_pc = "log"
    /\ s_log' = IF s_failed_records # << >>
                THEN [written |-> TRUE, total_failed |-> Len(s_failed_records),
                      failed_records |-> s_failed_records]
                ELSE s_log
    /\ s_return' = IF s_total_failed = 0 THEN "true" ELSE "false"
    /\ s_pc' = "done"
    /\ UNCHANGED <<s_args, s_catalog, s_national, s_regional, s_tasks, s_total_updated,
                   s_total_failed, s_failed_records>>
    /\ UNCHANGED notSmartVars

NextSmart ==
    \/ SmartFilter
    \/ Phase1Submit
    \/ \E i \in 1..Len(s_tasks) : SmartTaskBegin(i)
    \/ \E i \in 1..Len(s_tasks), outcome \in IngestOutcomes : SmartTaskEnd(i, outcome)
    \/ Phase1Join
    \/ Phase2Submit
    \/ Phase2Join
    \/ SmartLog

SpecSmart == InitSmart /\ [][NextSmart]_vars

---------------------------------------------------------------------------
(* fetch_incremental_series_data on its own *)

\* Endpoints: with /p/all, with another period segment (/p/last 12), without
\* a period segment.
FetchUrls ==
    {[path |-> "/t/1737/n1/1/v/63", p |-> seg, start |-> << >>, end |-> << >>] :
        seg \in {"all", "last", "none"}}

\* Last stored dates: none, first days of months up to the current one, and
\* days late in a month.
FetchLastDates ==
    {NoPeriod, <<2022, 12, 1>>, <<2023, 1, 1>>, <<2023, 1, 31>>, <<2023, 3, 1>>,
     <<2023, 3, 30>>, <<2023, 4, 1>>}

\* The V of a row: a number, the placeholders "", ".." and "...", a text that
\* float() rejects, a text that float() reads as NaN.
FetchTokens ==
    {Num(10), Num(11), Placeholder, [tok |-> "", n |-> 0], [tok |-> "...", n |-> 0],
     [tok |-> "abc", n |-> 0], [tok |-> "nan", n |-> 0]}

\* The period codes of the rows; the last one is no month.
FetchCodes == {202303, 202304, 202313}

FetchRowSets == UNION {[S -> FetchTokens] : S \in SUBSET FetchCodes}

InitFetch ==
    /\ SeriesIdle
    /\ CompareIdle
    /\ BatchIdle
    /\ SmartIdle
    /\ LockIdle
    /\ AutoIdle
    /\ ft_pc = "input"
    /\ ft_api_url \in FetchUrls
    /\ ft_last \in FetchLastDates
    /\ ft_resp \in {[status |-> "ok", header_ok |-> TRUE, rows |-> r] : r \in FetchRowSets}
    /\ ft_request = Record.api_url
    /\ ft_result = FetchRaised

\* fetch_incremental_series_data(api_url, last_date) returns or raises.
FetchCall ==
    /\ ft_pc = "input"
    /\ ft_request' = BuildIncrementalApiUrl(ft_api_url, ft_last)
    /\ ft_result' = FetchIncrementalSeriesData(ft_resp, ft_last)
    /\ ft_pc' = "done"
    /\ UNCHANGED <<ft_api_url, ft_last, ft_resp>>
    /\ UNCHANGED notFetchVars

NextFetch == FetchCall

SpecFetch == InitFetch /\ [][NextFetch]_vars

---------------------------------------------------------------------------
(* process_record of the two thread pools, step by step around print_lock *)

\* A worker task that has not called the ingestion yet.
NewWorker == [pc |-> "ingest", out |-> "none"]

InitLock ==
    /\ SeriesIdle
    /\ CompareIdle
    /\ BatchIdle
    /\ SmartIdle
    /\ FetchIdle
    /\ AutoIdle
    /\ k_script \in {"vintages", "smart"}
    /\ k_lock = 0
    /\ k_tasks = [i \in 1..Workers |-> NewWorker]
    /\ k_failed = << >>
    /\ k_counters = [updated |-> 0, failed |-> 0]
    /\ k_collected = {}

\* The ingestion of task i returns (True, message), returns (False, message)
\* or raises.
LockIngest(i, out) ==
    /\ k_script # "none"
    /\ k_tasks[i].pc = "ingest"
    /\ k_tasks' = [k_tasks EXCEPT ![i] = [pc |-> "acquire", out |-> out]]
    /\ UNCHANGED <<k_script, k_lock, k_failed, k_counters, k_collected>>
    /\ UNCHANGED notLockVars

\* with print_lock: task i enters when the lock is free.
LockAcquire(i) ==
    /\ k_tasks[i].pc = "acquire"
    /\ k_lock = 0
    /\ k_lock' = i
    /\ k_tasks' = [k_tasks EXCEPT ![i].pc = "locked"]
    /\ UNCHANGED <<k_script, k_failed, k_counters, k_collected>>
    /\ UNCHANGED notLockVars

\* The body of the with block and its exit.  The smart scheduler counts and
\* appends in it; the vintage ingestion only prints in it.
LockRelease(i) ==
    /\ k_tasks[i].pc = "locked"
    /\ k_lock' = 0
    /\ IF k_script = "smart"
       THEN /\ k_counters' = IF k_tasks[i].out = "ok"
                             THEN [k_counters EXCEPT !.updated = @ + 1]
                             ELSE [k_counters EXCEPT !.failed = @ + 1]
            /\ k_failed' = IF k_tasks[i].out = "ok" THEN k_failed ELSE Append(k_failed, i)
            /\ k_tasks' = [k_tasks EXCEPT ![i].pc = "returned"]
       ELSE /\ UNCHANGED <<k_counters, k_failed>>
            /\ k_tasks' = [k_tasks EXCEPT ![i].pc =
                              IF k_tasks[i].out = "ok" THEN "returned" ELSE "append"]
    /\ UNCHANGED <<k_script, k_collected>>
    /\ UNCHANGED notLockVars

\* failed_records.append(...) of the vintage ingestion, after the with block.
LockAppend(i) ==
    /\ k_tasks[i].pc = "append"
    /\ k_failed' = Append(k_failed, i)
    /\ k_tasks' = [k_tasks EXCEPT ![i].pc = "returned"]
    /\ UNCHANGED <<k_script, k_lock, k_counters, k_collected>>
    /\ UNCHANGED notLockVars

\* The main thread takes the result of a finished future; in the vintage
\* ingestion it counts it.
LockCollect(i) ==
    /\ k_tasks[i].pc = "returned"
    /\ i \notin k_collected
    /\ k_collected' = k_collected \cup {i}
    /\ k_counters' = IF k_script = "smart" THEN k_counters
                     ELSE IF k_tasks[i].out = "ok"
                          THEN [k_counters EXCEPT !.updated = @ + 1]
                          ELSE [k_counters EXCEPT !.failed = @ + 1]
    /\ UNCHANGED <<k_script, k_lock, k_tasks, k_failed>>
    /\ UNCHANGED notLockVars

NextLock ==
    \/ \E i \in 1..Workers, out \in {"ok", "fail", "raised"} : LockIngest(i, out)
    \/ \E i \in 1..Workers : LockAcquire(i)
    \/ \E i \in 1..Workers : LockRelease(i)
    \/ \E i \in 1..Workers : LockAppend(i)
    \/ \E i \in 1..Workers : LockCollect(i)

SpecLock == InitLock /\ [][NextLock]_vars

---------------------------------------------------------------------------
(* auto_update_scheduler.py *)

\* Invocations of the scheduler that are followed.
MaxRuns == 2

\* The datasets of UPDATE_SCHEDULE that are followed, in the order of its keys.
ScheduleKeys == <<"ipca", "pnadct", "bacen">>

ScheduleDatasets == {ScheduleKeys[i] : i \in 1..Len(ScheduleKeys)}

UPDATE_SCHEDULE ==
    [ds \in ScheduleDatasets |->
        CASE ds = "ipca" ->
                [frequency |-> "monthly", months |-> {}, day_of_month |-> 15..20,
                 retry_days |-> 21..23, priority |-> "high"]
          [] ds = "pnadct" ->
                [frequency |-> "quarterly", months |-> {2, 5, 8, 11}, day_of_month |-> 15..20,
                 retry_days |-> 21..25, priority |-> "high"]
          [] ds = "bacen" ->
                [frequency |-> "daily", months |-> {}, day_of_month |-> {},
                 retry_days |-> {}, priority |-> "high"]]

\* The days before each month of a year that is not a leap year.
DaysBefore == <<0, 31, 59, 90, 120, 151, 181, 212, 243, 273, 304, 334>>

\* The day of the year of <<month, day>>.
DayOfYear(t) == DaysBefore[t[1]] + t[2]

\* The days on which the scheduler is invoked.
AutoDays == {<<2, 20>>, <<2, 21>>, <<3, 21>>}

NoFailedLog == [exists |-> FALSE, day |-> <<1, 1>>, total_failed |-> 0]

\* The failure log that a batch with failed series writes on a day.
FailedLog(day) == [exists |-> TRUE, day |-> day, total_failed |-> 1]

NeverUpdated == [ran |-> FALSE, day |-> <<1, 1>>, series_failed |-> FALSE, success |-> FALSE]

\* check_last_update_failed(dataset)
CheckLastUpdateFailed(ds, today, logs) ==
    IF ~logs[ds].exists THEN FALSE
    ELSE IF DayOfYear(today) - DayOfYear(logs[ds].day) > 7 THEN FALSE
    ELSE logs[ds].total_failed > 0

\* should_update_dataset(dataset)
ShouldUpdateDataset(ds, today, logs) ==
    LET schedule == UPDATE_SCHEDULE[ds]
    IN  CASE schedule.frequency = "daily" -> TRUE
          [] schedule.frequency = "monthly" ->
                IF today[2] \in schedule.day_of_month THEN TRUE
                ELSE IF today[2] \in schedule.retry_days
                     THEN CheckLastUpdateFailed(ds, today, logs)
                     ELSE FALSE
          [] schedule.frequency = "quarterly" ->
                IF today[1] \in schedule.months /\ today[2] \in schedule.day_of_month THEN TRUE
                ELSE IF today[1] \in schedule.months /\ today[2] \in schedule.retry_days
                     THEN CheckLastUpdateFailed(ds, today, logs)
                     ELSE FALSE
          [] OTHER -> FALSE

\* get_datasets_to_update(): the datasets to update, sorted by priority with
\* the order of the keys kept among equals.
GetDatasetsToUpdate(today, logs) ==
    LET due(ds) == ShouldUpdateDataset(ds, today, logs)
        datasets == SelectSeq(ScheduleKeys, due)
        high(ds) == UPDATE_SCHEDULE[ds].priority = "high"
        medium(ds) == UPDATE_SCHEDULE[ds].priority = "medium"
        low(ds) == UPDATE_SCHEDULE[ds].priority \notin {"high", "medium"}
    IN  SelectSeq(datasets, high) \o SelectSeq(datasets, medium) \o SelectSeq(datasets, low)

\* What a strategy's main can do: return with no series failed, return with
\* series failed, or raise.
MainOutcomes == {"clean", "failures", "raised"}

\* UpdateDataset that runs the full update whatever the incremental one did.
UpdateDatasetBothAlways(cat, inc, full) ==
    IF cat # "ok"
    THEN [attempts |-> << >>, success |-> FALSE]
    ELSE [attempts |-> <<[strategy |-> "incremental", outcome |-> inc],
                         [strategy |-> "full", outcome |-> full]>>,
          success |-> full # "raised"]

\* update_dataset(dataset): the strategies it runs and what it returns.  cat
\* is "ok", "empty" (no series of the dataset) or "raised" (load_catalog).
UpdateDataset(cat, inc, full) ==
    IF cat # "ok"
    THEN [attempts |-> << >>, success |-> FALSE]
    ELSE IF inc # "raised"
         THEN [attempts |-> <<[strategy |-> "incremental", outcome |-> inc]>>,
               success |-> TRUE]
         ELSE [attempts |-> <<[strategy |-> "incremental", outcome |-> inc],
                              [strategy |-> "full", outcome |-> full]>>,
               success |-> full # "raised"]

\* The failure log of the dataset after the strategies have run: the full
\* ingestion writes one when series failed, the incremental one writes none.
LogAfter(log, attempts, today) ==
    IF \E i \in 1..Len(attempts) :
           attempts[i].strategy = "full" /\ attempts[i].outcome = "failures"
    THEN FailedLog(today)
    ELSE log

InitAuto ==
    /\ SeriesIdle
    /\ CompareIdle
    /\ BatchIdle
    /\ SmartIdle
    /\ FetchIdle
    /\ LockIdle
    /\ a_pc = "start"
    /\ a_today \in AutoDays
    /\ a_runs = 1
    /\ a_logs \in [ScheduleDatasets -> {NoFailedLog, FailedLog(<<2, 19>>)}]
    /\ a_last = [ds \in ScheduleDatasets |-> NeverUpdated]
    /\ a_selected = << >>
    /\ a_attempts = [ds \in ScheduleDatasets |-> << >>]
    /\ a_results = << >>
    /\ a_file = NoFile

\* main() up to its loop: the datasets of today; with none it returns.
AutoSelect ==
    /\ a_pc = "start"
    /\ a_selected' = GetDatasetsToUpdate(a_today, a_logs)
    /\ a_pc' = IF a_selected' = << >> THEN "done" ELSE "update"
    /\ UNCHANGED <<a_today, a_runs, a_logs, a_last, a_attempts, a_results, a_file>>
    /\ UNCHANGED notAutoVars

\* One turn of the loop of main: results[dataset] = update_dataset(dataset).
AutoUpdate(cat, inc, full) ==
    /\ a_pc = "update"
    /\ Cardinality(DOMAIN a_results) < Len(a_selected)
    /\ LET ds == a_selected[Cardinality(DOMAIN a_results) + 1]
           r == UpdateDataset(cat, inc, full)
       IN  /\ a_attempts' = [a_attempts EXCEPT ![ds] = r.attempts]
           /\ a_results' = [d \in DOMAIN a_results \cup {ds} |->
                               IF d = ds THEN r.success ELSE a_results[d]]
           /\ a_logs' = [a_logs EXCEPT ![ds] = LogAfter(a_logs[ds], r.attempts, a_today)]
           /\ a_last' = [a_last EXCEPT ![ds] =
                            [ran |-> TRUE, day |-> a_today,
                             series_failed |-> r.attempts # << >> /\
                                 r.attempts[Len(r.attempts)].outcome = "failures",
                             success |-> r.success]]
    /\ UNCHANGED <<a_pc, a_today, a_runs, a_selected, a_file>>
    /\ UNCHANGED notAutoVars

\* The end of main: the results file.
AutoWriteResults ==
    /\ a_pc = "update"
    /\ Cardinality(DOMAIN a_results) = Len(a_selected)
    /\ a_file' = [written |-> TRUE,
                  datasets_updated |-> a_selected,
                  results |-> a_results,
                  success_count |-> Cardinality({d \in DOMAIN a_results : a_results[d]}),
                  failure_count |-> Cardinality({d \in DOMAIN a_results : ~a_results[d]})]
    /\ a_pc' = "done"
    /\ UNCHANGED <<a_today, a_runs, a_logs, a_last, a_selected, a_attempts, a_results>>
    /\ UNCHANGED notAutoVars

\* The scheduler is invoked again on a later day.
AutoNextDay(day) ==
    /\ a_pc = "done"
    /\ a_runs < MaxRuns
    /\ DayOfYear(day) > DayOfYear(a_today)
    /\ a_today' = day
    /\ a_runs' = a_runs + 1
    /\ a_pc' = "start"
    /\ a_selected' = << >>
    /\ a_attempts' = [ds \in ScheduleDatasets |-> << >>]
    /\ a_results' = << >>
    /\ a_file' = NoFile
    /\ UNCHANGED <<a_logs, a_last>>
    /\ UNCHANGED notAutoVars

NextAuto ==
    \/ AutoSelect
    \/ \E cat \in {"ok", "empty", "raised"}, inc \in MainOutcomes, full \in MainOutcomes :
           AutoUpdate(cat, inc, full)
    \/ AutoWriteResults
    \/ \E day \in AutoDays : AutoNextDay(day)

SpecAuto == InitAuto /\ [][NextAuto]_vars

---------------------------------------------------------------------------
(* Properties *)

\* Positions of the write log by kind.
VintageWrites == {i \in 1..Len(writes) : writes[i].kind = "vintage"}
LiveWrites == {i \in 1..Len(writes) : writes[i].kind = "live"}

\* A finished task of the given mode that wrote for real.
DoneTask(m) == pc = "done" /\ mode = m /\ ~dry_run

\* C1: a vintage entry that is in the store stays in the store with the same
\* content over every step of an incremental or a full-refresh update.
C1_VintagesAppendOnly ==
    [][\A k \in DOMAIN store.vintages :
          /\ k \in DOMAIN store'.vintages
          /\ store'.vintages[k] = store.vintages[k]]_vars

\* C2: after a successful incremental update that is no dry run, every period
\* key of the values stored before the update is a key of the stored values.
C2_IncrementalKeepsKeys ==
    (DoneTask("incr") /\ result.ok) =>
        DOMAIN pre.values \subseteq DOMAIN store.values

\* C2 witness: an incremental update has written a longer series over a stored one.
C2_Witness ==
    /\ DoneTask("incr") /\ result.ok
    /\ result.message.kind = "incr_updated"
    /\ DOMAIN pre.values # {}
    /\ DOMAIN store.values # DOMAIN pre.values

\* C3: when the vintage write of a full refresh fails, the live record is still
\* written with the fetched values, and unless that write fails too the update
\* is reported as a success.
C3_VintageFailureDoesNotBlock ==
    (DoneTask("full") /\ \E i \in VintageWrites : ~writes[i].ok) =>
        /\ \E j \in LiveWrites : writes[j].values = new_values
        /\ (\A j \in LiveWrites : writes[j].ok) => result.ok

\* At least one period added, removed or changed in value between two maps.
Differ(old_vals, new_vals) ==
    \/ DOMAIN old_vals # DOMAIN new_vals
    \/ \E k \in DOMAIN old_vals \cap DOMAIN new_vals : ~IsClose(old_vals[k], new_vals[k])

\* C4: a full refresh that is no dry run issues a vintage write exactly when it
\* compared non-empty stored values with the fetched ones and they differ in a
\* period added, a period removed or a value changed.
C4_VintageIffChanges ==
    (mode = "full" /\ ~dry_run /\ pc \in {"f_write", "done"}) =>
        (VintageWrites # {}
            <=> /\ comparison.performed
                /\ DOMAIN pre.values # {}
                /\ Differ(pre.values, new_values))

\* C4 witness: a vintage write issued for a period that was only added.
C4_Witness ==
    /\ DoneTask("full")
    /\ VintageWrites # {}
    /\ Len(comparison.added) = 1
    /\ comparison.changed = {}
    /\ comparison.removed = << >>

\* C5: every vintage write of a full refresh comes before any live write of the
\* task and carries the values and the metadata stored before the update; a
\* live write of a task that detected changes has a vintage write before it.
C5_VintageFirstWithOldSnapshot ==
    mode = "full" =>
        /\ \A i \in VintageWrites :
              /\ \A j \in LiveWrites : i < j
              /\ writes[i].values = pre.values
              /\ writes[i].metadata = pre.metadata
              /\ writes[i].ok /\ pc = "f_write" =>
                    /\ store.values = pre.values
                    /\ store.vintages[writes[i].key].values = pre.values
                    /\ store.vintages[writes[i].key].metadata_snapshot = pre.metadata
        /\ (has_changes /\ LiveWrites # {}) => VintageWrites # {}

\* C5 witness: the vintage is written, the live record not yet, and the fetched
\* values are not the stored ones.
C5_Witness ==
    /\ mode = "full" /\ pc = "f_write"
    /\ VintageWrites = {1} /\ writes[1].ok
    /\ new_values # pre.values
    /\ pre.metadata.last_updated > 0

\* No row of the response has a period after the given one.
NothingNewerThan(rows, last) ==
    \A c \in DOMAIN rows :
        ParsePeriod(c) # NoPeriod => ~StrLess(last, ParsePeriod(c))

\* C6: an incremental update that follows a successful incremental update of
\* the series, answered by the provider with no period newer than the last
\* stored one, ends as a success with no new data, issues no store write and
\* leaves the stored record as it was.
C6_SecondRunNoNewData ==
    (/\ pc = "done" /\ mode = "incr"
     /\ prev_task = "incr_ok"
     /\ DOMAIN pre.values # {}
     /\ last_date # NoPeriod
     /\ response.status = "ok" /\ response.header_ok
     /\ NothingNewerThan(response.rows, last_date)) =>
        /\ result.ok
        /\ result.result_type = "no_update"
        /\ writes = << >>
        /\ store = pre

\* C7: the values an incremental update writes are the stored values overridden
\* by the fetched ones: a fetched key has the fetched value, a key only stored
\* has the stored value, and there is no other key.
C7_MergeIsOverride ==
    (mode = "incr" /\ DOMAIN new_values # {}) =>
        \A i \in LiveWrites :
            /\ DOMAIN writes[i].values = DOMAIN pre.values \cup DOMAIN new_values
            /\ \A k \in DOMAIN new_values : writes[i].values[k] = new_values[k]
            /\ \A k \in DOMAIN pre.values \ DOMAIN new_values :
                  writes[i].values[k] = pre.values[k]
            /\ writes[i].ok => store.values = writes[i].values

\* C7 witness: a written merge in which a fetched value replaced a different
\* stored value and a key only stored was kept.
C7_Witness ==
    /\ DoneTask("incr") /\ result.ok /\ LiveWrites # {}
    /\ \E k \in DOMAIN pre.values \cap DOMAIN new_values : pre.values[k] # new_values[k]
    /\ DOMAIN pre.values \ DOMAIN new_values # {}

\* C8: with a last stored period L, no period at or before L is in the new
\* values of the incremental fetch, whatever rows the provider returned, and
\* every numeric row after L is.
C8_BoundaryExcluded ==
    (mode = "incr" /\ pc \in {"i_read", "i_write", "done"} /\ last_date # NoPeriod) =>
        /\ \A p \in DOMAIN new_values : StrLess(last_date, p)
        /\ (response.status = "ok" /\ response.header_ok) =>
              \A c \in DOMAIN response.rows :
                  (response.rows[c].tok = "num" /\ StrLess(last_date, ParsePeriod(c)))
                      => ParsePeriod(c) \in DOMAIN new_values

\* C8 witness: the provider returned the whole history, the boundary period
\* included, and something newer.
C8_Witness ==
    /\ mode = "incr" /\ pc = "i_read" /\ last_date # NoPeriod
    /\ \E c \in DOMAIN response.rows :
          ParsePeriod(c) = last_date /\ response.rows[c].tok = "num"
    /\ \E c \in DOMAIN response.rows : StrLess(ParsePeriod(c), last_date)
    /\ DOMAIN new_values # {}

\* C9: a full refresh on an empty store that fetches two points creates the
\* live record with both, sets last_updated and writes no vintage; a full
\* refresh on a two-point record of a first ingestion that fetches the two
\* points and a third finds the third period added, writes one vintage with
\* the two-point snapshot and makes the live record the three points.
C9_EndToEnd ==
    /\ (DoneTask("full") /\ result.ok /\ pre = NoData
            /\ Cardinality(DOMAIN new_values) = 2) =>
          /\ store.values = new_values
          /\ store.metadata.last_updated = clock - 1
          /\ VintageWrites = {}
          /\ DOMAIN store.vintages = {}
    /\ (DoneTask("full") /\ result.ok
            /\ Cardinality(DOMAIN pre.values) = 2
            /\ ~pre.metadata.vintage_comparison.performed
            /\ Cardinality(DOMAIN new_values) = 3
            /\ \A k \in DOMAIN pre.values :
                  k \in DOMAIN new_values /\ new_values[k] = pre.values[k]) =>
          /\ \E k \in DOMAIN new_values \ DOMAIN pre.values : comparison.added = <<k>>
          /\ comparison.removed = << >> /\ comparison.changed = {}
          /\ Cardinality(VintageWrites) = 1
          /\ \A i \in VintageWrites : writes[i].ok /\ writes[i].values = pre.values
          /\ store.values = new_values

\* C9 witness: the second run of the scenario has finished.
C9_Witness ==
    /\ DoneTask("full") /\ result.ok
    /\ ~pre.metadata.vintage_comparison.performed
    /\ pre.metadata.last_updated = 1
    /\ DOMAIN pre.values = {<<2023, 1, 1>>, <<2023, 2, 1>>}
    /\ pre.values[<<2023, 1, 1>>] = 10 /\ pre.values[<<2023, 2, 1>>] = 11
    /\ DOMAIN new_values = {<<2023, 1, 1>>, <<2023, 2, 1>>, <<2023, 3, 1>>}
    /\ new_values[<<2023, 1, 1>>] = 10 /\ new_values[<<2023, 2, 1>>] = 11
    /\ new_values[<<2023, 3, 1>>] = 12
    /\ comparison.added = << <<2023, 3, 1>> >>

\* C10: with no values stored, a full refresh performs no comparison and writes
\* no vintage; when it succeeds the live record holds exactly the fetched
\* points and the task is counted as a first ingestion.
C10_FirstIngestion ==
    (mode = "full" /\ ~dry_run /\ DOMAIN pre.values = {}) =>
        /\ ~comparison.performed
        /\ VintageWrites = {}
        /\ (pc = "done" /\ result.ok) =>
              /\ store.values = new_values
              /\ DOMAIN store.vintages = {}
              /\ ~store.metadata.vintage_comparison.performed
              /\ result.result_type = "first"
              /\ counters.first_ingestion = 1
              /\ counters.successes = 1
              /\ counters.with_changes = 0 /\ counters.no_changes = 0

\* C10 witness: a first ingestion of three points has finished.
C10_Witness ==
    /\ DoneTask("full") /\ result.ok
    /\ DOMAIN pre.values = {}
    /\ Cardinality(DOMAIN store.values) = 3

\* C11: a dry run of either update issues no store write, and the store is as
\* it was when the task started, whatever was fetched and stored.
C11_DryRunWritesNothing ==
    (dry_run /\ pc # "idle") => (writes = << >> /\ store = pre)

\* C11 witness: a dry run of a full refresh over stored values has finished
\* and reported changes.
C11_Witness ==
    /\ pc = "done" /\ dry_run /\ mode = "full" /\ result.ok
    /\ DOMAIN pre.values # {}
    /\ has_changes

\* C13: a finished task of the full-refresh batch is counted in the one bucket
\* that matches it: first ingestion with no values stored before, no changes
\* when the comparison found none, with revisions when it found any, failure
\* otherwise; the three success buckets add up to the successes.
C13_BucketsMatchOutcome ==
    DoneTask("full") =>
        /\ counters.successes + counters.failures = 1
        /\ counters.first_ingestion + counters.with_changes + counters.no_changes
              = counters.successes
        /\ (result.ok /\ DOMAIN pre.values = {}) => counters.first_ingestion = 1
        /\ (result.ok /\ comparison.performed /\ comparison.total_changes = 0)
              => counters.no_changes = 1
        /\ (result.ok /\ comparison.performed /\ comparison.total_changes > 0)
              => counters.with_changes = 1
        /\ ~result.ok => counters.failures = 1

\* The elements of a sequence.
Range(seq) == {seq[i] : i \in 1..Len(seq)}

\* A sequence of keys in ascending order with no key twice.
Ascending(seq) == \A i, j \in 1..Len(seq) : i < j => StrLess(seq[i], seq[j])

\* C17: compare_series returns as added exactly the keys only in the new map
\* and as removed exactly the keys only in the old map, each in ascending
\* order; old = {2024-01-01: 1}, new = {2024-02-01: 2} gives added
\* [2024-02-01], removed [2024-01-01] and nothing changed.
C17_AddedRemovedSorted ==
    cmp_pc = "done" =>
        /\ Range(cmp_result.added) = DOMAIN cmp_new \ DOMAIN cmp_old
        /\ Range(cmp_result.removed) = DOMAIN cmp_old \ DOMAIN cmp_new
        /\ Ascending(cmp_result.added) /\ Ascending(cmp_result.removed)
        /\ (/\ DOMAIN cmp_old = {<<2024, 1, 1>>} /\ cmp_old[<<2024, 1, 1>>] = 1
            /\ DOMAIN cmp_new = {<<2024, 2, 1>>} /\ cmp_new[<<2024, 2, 1>>] = 2) =>
              /\ cmp_result.added = << <<2024, 2, 1>> >>
              /\ cmp_result.removed = << <<2024, 1, 1>> >>
              /\ cmp_result.changed = {}

\* C17 witness: two periods added and one removed.
C17_Witness ==
    /\ cmp_pc = "done"
    /\ Len(cmp_result.added) = 2
    /\ Len(cmp_result.removed) = 1
    /\ StrLess(cmp_result.removed[1], cmp_result.added[2])

\* The entries of 'changed' for a key.
ChangedAt(k) == {e \in cmp_result.changed : e.date = k}

\* C18: compare_series puts every common key in exactly one of changed and
\* unchanged: changed when the values differ by more than the relative
\* tolerance and never when they are equal, with change = new - old and
\* change_pct None for old = 0 and (new - old) / old * 100 otherwise;
\* total_changes is the sum of the three lengths, and unchanged_count plus
\* the number of changed entries is the number of common keys.
C18_ChangedClassification ==
    cmp_pc = "done" =>
        LET common == DOMAIN cmp_old \cap DOMAIN cmp_new
        IN  /\ \A e \in cmp_result.changed : e.date \in common
            /\ \A k \in common :
                  LET o == cmp_old[k]
                      n == cmp_new[k]
                      beyond == Abs(o - n) > Max(Abs(o), Abs(n)) \div RelTolInv
                  IN  /\ Cardinality(ChangedAt(k)) = IF beyond THEN 1 ELSE 0
                      /\ o = n => ChangedAt(k) = {}
                      /\ \A e \in ChangedAt(k) :
                            /\ e.old_value = o /\ e.new_value = n
                            /\ e.change = n - o
                            /\ e.change_pct.none <=> o = 0
                            /\ ~e.change_pct.none =>
                                  /\ e.change_pct.num = (n - o) * 100
                                  /\ e.change_pct.den = o
            /\ cmp_result.unchanged_count + Cardinality(cmp_result.changed)
                  = Cardinality(common)
            /\ cmp_result.total_changes
                  = Len(cmp_result.added) + Len(cmp_result.removed)
                    + Cardinality(cmp_result.changed)

\* C18 witness: one value changed from zero, one pair of unequal values
\* within the tolerance, one period added.
C18_Witness ==
    /\ cmp_pc = "done"
    /\ \E e \in cmp_result.changed : e.old_value = 0 /\ e.change_pct.none
    /\ \E k \in DOMAIN cmp_old \cap DOMAIN cmp_new :
          cmp_old[k] # cmp_new[k] /\ ChangedAt(k) = {}
    /\ cmp_result.total_changes = 2

\* The tasks of the batch and those whose update function raised.
BatchTasks == 1..Len(b_tasks)
RaisedTasks == {i \in BatchTasks : b_tasks[i].message.kind = "exception"}

\* C12: an exception of one task's fetch, store read or store write never
\* reaches the loop of main(); when the batch is over every task has been
\* counted, the task that raised as one failure, and the counts of the summary
\* add up to the number of records.
C12_BatchResilience ==
    /\ b_pc # "crashed"
    /\ \A i \in BatchTasks : ~b_tasks[i].raised
    /\ b_pc = "done" =>
          /\ Len(b_tasks) = Len(b_to_process)
          /\ TasksIn({"counted"}) = BatchTasks
          /\ b_counters.successes + b_counters.no_updates + b_counters.failures
                = Len(b_to_process)
          /\ b_counters.failures = Cardinality({i \in BatchTasks : ~b_tasks[i].ok})
          /\ RaisedTasks \subseteq {i \in BatchTasks : ~b_tasks[i].ok}

\* C12 witness: a batch of two in which one task raised and the other succeeded.
C12_Witness ==
    /\ b_pc = "done"
    /\ Len(b_tasks) = 2
    /\ Cardinality(RaisedTasks) = 1
    /\ b_counters.failures = 1
    /\ b_counters.successes + b_counters.no_updates = 1

\* C14: at the end of a batch of either script every failed task has its
\* identifier, label, endpoint and error in failed_records, and when a task
\* failed the log artifact holds that list with total_failed equal to the
\* failures of the summary.
C14_FailuresLogged ==
    (b_pc = "done" /\ Len(b_tasks) > 0) =>
        /\ \A i \in BatchTasks :
              ~b_tasks[i].ok =>
                  \E k \in 1..Len(b_failed) :
                      b_failed[k] = FailedRecord(b_tasks[i].rec, b_tasks[i].message)
        /\ b_counters.failures > 0 =>
              /\ b_log.written
              /\ b_log.total_failed = b_counters.failures
              /\ b_log.failed_records = b_failed

C16_FetchFailureIsPerRecord ==
    /\ \A i \in TasksIn({"returned", "counted"}) :
          b_tasks[i].fetch_failed =>
              /\ ~b_tasks[i].ok
              /\ b_tasks[i].message.kind = "fetch_failed"
              /\ b_store[b_tasks[i].rec.px_code] = b_pre[b_tasks[i].rec.px_code]
    /\ b_pc = "done" =>
          /\ TasksIn({"counted"}) = BatchTasks
          /\ b_counters.failures >= Cardinality({i \in BatchTasks : b_tasks[i].fetch_failed})

\* C16 witness: a batch in which the fetch of one series failed, its subtree
\* is as before, and another series was updated.
C16_Witness ==
    /\ b_pc = "done"
    /\ \E i, j \in BatchTasks :
          /\ b_tasks[i].fetch_failed
          /\ b_tasks[i].message.kind = "fetch_failed"
          /\ b_store[b_tasks[i].rec.px_code] = b_pre[b_tasks[i].rec.px_code]
          /\ b_store[b_tasks[i].rec.px_code] # NoData
          /\ b_tasks[j].ok
          /\ b_store[b_tasks[j].rec.px_code] # b_pre[b_tasks[j].rec.px_code]
    /\ b_counters.failures = 1

\* C19: with --resume the records processed are those of the dataset whose
\* identifier is not in the store, and those in the store are skipped.
C19_ResumeSkipsPresent ==
    (b_args.resume /\ b_pc \in {"submit", "pool", "done"}
        /\ Filtered(LoadCatalog, b_args.dataset) # << >>) =>
        LET filtered == Filtered(LoadCatalog, b_args.dataset)
        IN  {b_to_process[i].px_code : i \in 1..Len(b_to_process)}
               = {filtered[i].px_code : i \in 1..Len(filtered)} \ ExistingPx(b_pre)

\* The tasks of a phase that a worker has taken, and those that are done.
StartedIn(phase_name) ==
    {i \in 1..Len(s_tasks) :
        s_tasks[i].phase = phase_name /\ s_tasks[i].st \in {"running", "done"}}
DonePx(phase_name) ==
    {s_tasks[i].rec.px_code :
        i \in {j \in 1..Len(s_tasks) :
                  s_tasks[j].phase = phase_name /\ s_tasks[j].st = "done"}}

\* C20: with national_first set, once the update of a regional series of the
\* dataset has started the update of every national series of the dataset is
\* done.
C20_NationalBeforeRegional ==
    (s_args.national_first /\ StartedIn("REGIONAL") # {}) =>
        \A k \in 1..Len(s_national) : s_national[k].px_code \in DonePx("NATIONAL")

\* C20 witness: two national series have been updated, one of them without
\* success, and a regional one is running.
C20_Witness ==
    /\ s_args.national_first
    /\ Len(s_national) = 2
    /\ s_total_failed >= 1
    /\ \E i \in StartedIn("REGIONAL") : s_tasks[i].st = "running"

\* The last key of a non-empty map of values in lexicographic order.
MaxKey(values) ==
    CHOOSE k \in DOMAIN values : \A j \in DOMAIN values : j = k \/ StrLess(j, k)

\* C22: the incremental update requests the unmodified endpoint when the store
\* has no values for the series, and when it has values the request is bounded
\* by the last period, the greatest key of the stored values.
C22_FetchFollowsStore ==
    (mode = "incr" /\ pc \in {"i_read", "i_write", "done"}) =>
        IF DOMAIN pre.values = {}
        THEN last_date = NoPeriod /\ request = Record.api_url
        ELSE /\ last_date = MaxKey(pre.values)
             /\ request = [Record.api_url EXCEPT
                              !.p = "range",
                              !.start = NextMonthOf(MaxKey(pre.values)),
                              !.end = <<Today[1], Today[2]>>]

\* C29: after a successful incremental update every period that was stored
\* before it has the value it had.
C29_IncrementalKeepsValues ==
    (DoneTask("incr") /\ result.ok) =>
        \A k \in DOMAIN pre.values :
            k \in DOMAIN store.values /\ store.values[k] = pre.values[k]

\* C30: after a successful full refresh that is no dry run the live values are
\* the fetched map: no period that the fetch did not return, and for every
\* period the fetched value.
C30_FullRefreshReplaces ==
    (DoneTask("full") /\ result.ok) =>
        /\ store.values = new_values
        /\ \A i \in LiveWrites : writes[i].values = new_values

\* C30 witness: the fetch lacked a stored period and revised another.
C30_Witness ==
    /\ DoneTask("full") /\ result.ok
    /\ DOMAIN pre.values \ DOMAIN new_values # {}
    /\ \E k \in DOMAIN pre.values \cap DOMAIN new_values : pre.values[k] # new_values[k]
    /\ store.values = new_values

\* The tasks of the batch that wrote the live record and returned a success.
WroteLive ==
    {i \in TasksIn({"returned", "counted"}) :
        b_tasks[i].ok /\ b_tasks[i].message.kind
                            \in {"incr_updated", "first", "updated", "nochanges"}}

\* C25: after a successful write of either script the metadata of the series
\* has the field that is not refreshed as it was (and, after an incremental
\* update, the stored comparison as it was), and last_updated is a time of
\* this batch, later than the one stored before.
C25_MetadataPreserved ==
    \A i \in WroteLive :
        LET px  == b_tasks[i].rec.px_code
            old == b_pre[px].metadata
            new == b_store[px].metadata
        IN  /\ new.other = old.other
            /\ b_args.mode = "incr" => new.vintage_comparison = old.vintage_comparison
            /\ new.api_url = b_tasks[i].rec.api_url
            /\ new.last_updated > old.last_updated
            /\ new.last_updated \in 2..(1 + Cardinality(TasksIn({"returned", "counted"})))

\* C25 witness: a series whose stored metadata had the field set has been
\* written with other values and still has it.
C25_Witness ==
    /\ b_pc = "done"
    /\ \E i \in WroteLive :
          /\ b_pre[b_tasks[i].rec.px_code].metadata.other = "kept"
          /\ b_store[b_tasks[i].rec.px_code].metadata.other = "kept"
          /\ b_store[b_tasks[i].rec.px_code].metadata.last_updated >= 2
          /\ b_store[b_tasks[i].rec.px_code].values # b_pre[b_tasks[i].rec.px_code].values

\* <<year, month>> a is not after <<year, month>> b.
MonthLeq(a, b) == a[1] < b[1] \/ (a[1] = b[1] /\ a[2] <= b[2])

\* C23: with a last stored date L, build_incremental_api_url turns an endpoint
\* with a period segment into the range that starts at the month after the
\* month of L and ends at the current month, with the start not after the end;
\* an endpoint with no period segment is returned as it is.
C23_RangeAfterLast ==
    (ft_pc = "done" /\ ft_last # NoPeriod) =>
        IF ft_api_url.p = "none"
        THEN ft_request = ft_api_url
        ELSE /\ ft_request.p = "range"
             /\ ft_request.path = ft_api_url.path
             /\ ft_request.start = MonthAfter(<<ft_last[1], ft_last[2]>>)
             /\ ft_request.end = <<Today[1], Today[2]>>
             /\ MonthLeq(ft_request.start, ft_request.end)

\* The rows of the answer that are to be returned: a number as V, a period
\* that normalizes, and with a last date a period after it.
GoodRows ==
    {c \in DOMAIN ft_resp.rows :
        /\ ft_resp.rows[c].tok = "num"
        /\ c % 100 \in 1..12
        /\ ft_last # NoPeriod => StrLess(ft_last, <<c \div 100, c % 100, 1>>)}

\* C24: a row with a placeholder, with a V that is no number or is NaN, or with
\* a period that does not normalize is not in the map that is returned, under
\* no key and with no value; every other row (after the last date) is there
\* with its number.
C24_BadRowsDropped ==
    (ft_pc = "done" /\ ~ft_result.raised) =>
        /\ DOMAIN ft_result.values = {<<c \div 100, c % 100, 1>> : c \in GoodRows}
        /\ \A c \in GoodRows :
              ft_result.values[<<c \div 100, c % 100, 1>>] = ft_resp.rows[c].n
        /\ \A p \in DOMAIN ft_result.values : ft_result.values[p] # 0

\* C24 witness: of three rows one has a placeholder, one a period that is no
\* month, and the third is returned.
C24_Witness ==
    /\ ft_pc = "done" /\ ~ft_result.raised
    /\ DOMAIN ft_resp.rows = FetchCodes
    /\ ft_resp.rows[202303].tok \in {"", "..", "...", "abc", "nan"}
    /\ ft_resp.rows[202313].tok = "num"
    /\ DOMAIN ft_result.values = {<<2023, 4, 1>>}

\* C21: a step of a worker task that appends to failed_records or changes an
\* outcome counter is taken by the task that holds print_lock.
C21_SharedStateUnderLock ==
    [][(k_tasks' # k_tasks /\ (k_failed' # k_failed \/ k_counters' # k_counters))
          => (k_lock # 0 /\ k_tasks'[k_lock] # k_tasks[k_lock])]_vars

\* The strategies update_dataset ran for a dataset, as allowed: none, the
\* incremental one alone when it returned, the incremental one that raised
\* followed by the full one.
FallbackChain(att) ==
    \/ att = << >>
    \/ /\ Len(att) = 1
       /\ att[1].strategy = "incremental" /\ att[1].outcome # "raised"
    \/ /\ Len(att) = 2
       /\ att[1].strategy = "incremental" /\ att[1].outcome = "raised"
       /\ att[2].strategy = "full"

\* C26: update_dataset runs the incremental update first and the full update
\* only after the incremental one has raised, and the dataset's result is true
\* exactly when one of the strategies it ran returned without raising.
C26_FullOnlyAfterIncrementalFailed ==
    \A ds \in DOMAIN a_results :
        /\ FallbackChain(a_attempts[ds])
        /\ a_results[ds] <=>
               \E i \in 1..Len(a_attempts[ds]) : a_attempts[ds][i].outcome # "raised"

\* C26 witness: in one invocation a dataset was updated by the incremental
\* strategy alone, and another by the full one after the incremental raised.
C26_Witness ==
    /\ a_pc = "done"
    /\ \E d1, d2 \in DOMAIN a_results :
          /\ Len(a_attempts[d1]) = 1 /\ a_results[d1]
          /\ Len(a_attempts[d2]) = 2 /\ a_attempts[d2][2].strategy = "full" /\ a_results[d2]

\* Today is a retry day of the dataset.
IsRetryDay(ds) ==
    /\ UPDATE_SCHEDULE[ds].frequency \in {"monthly", "quarterly"}
    /\ a_today[2] \in UPDATE_SCHEDULE[ds].retry_days
    /\ UPDATE_SCHEDULE[ds].frequency = "quarterly" => a_today[1] \in UPDATE_SCHEDULE[ds].months

\* The dataset is among the datasets selected for today.
Selected(ds) == \E i \in 1..Len(a_selected) : a_selected[i] = ds

\* C27: on a retry day of a dataset that the scheduler updated within the last
\* 7 days, the dataset is selected when a series failed in that last update,
\* and is not selected when that update succeeded with no failed series.
C27_RetryWhenLastUpdateFailed ==
    (a_pc \in {"update", "done"} /\ DOMAIN a_results = {}) =>
        \A ds \in ScheduleDatasets :
            (/\ IsRetryDay(ds)
             /\ a_last[ds].ran
             /\ DayOfYear(a_today) - DayOfYear(a_last[ds].day) <= 7)
            => /\ a_last[ds].series_failed => Selected(ds)
               /\ (a_last[ds].success /\ ~a_last[ds].series_failed) => ~Selected(ds)

\* C28: a dataset that the results file records as successful had no failed
\* series in this invocation.
C28_SuccessMeansNoFailedSeries ==
    a_file.written =>
        \A ds \in DOMAIN a_file.results :
            a_file.results[ds] => ~a_last[ds].series_failed

====
